---- MODULE Spec2Model ----
(***************************************************************************)
(* Coronary bifurcation angle calculator: the projection geometry, the     *)
(* two-view reconstruction, the angle optimizers, the linear solver, the   *)
(* bifurcation locator, the image processor and the step wizard.           *)
(*                                                                         *)
(* Real numbers are fixed-point integers: a value x is held as the integer *)
(* nearest to x * Scale.  Angles are whole degrees in the geometry and     *)
(* millidegrees in the optimizers.  Math.sin and Math.cos are a table of   *)
(* the whole degrees, extended to millidegrees by the angle-addition       *)
(* formula; Math.sqrt is the integer square root rounded to nearest.       *)
(***************************************************************************)
EXTENDS Integers, Sequences, FiniteSets, TLC

VARIABLES
  \* projection geometry (geometryCalculations.js, correctedMath, vesselTracking)
  angles,        \* the angle pair <<raoLao, cranialCaudal>> in degrees
  rotation,      \* results of the three rotation builders, once built
  backAngles,    \* normalVectorToProjectionAngles(viewing direction), once computed
  \* two-view reconstruction (geometryCalculations.js, BifurcationSimulator.jsx)
  projection1,   \* first projection: points, raoLao, cranialCaudal, image size
  projection2,   \* second projection
  vesselDirections, \* outcome of reconstruct3DVesselDirections, once called
  planeAngles,   \* outcome of calculatePlaneNormal and the angles of the normal
  vessels,       \* the simulator's three vessel directions
  simOptimal,    \* outcome of the simulator's calculateOptimalViewingAngles
  \* linear solver (imageProcessing.js)
  system,        \* the system to solve: [A |-> matrix, b |-> right-hand side]
  solution,      \* outcome of the solver, once called
  \* the wizard (App.jsx, ResultsDisplay.jsx)
  currentStep,   \* index of the step shown, 0..8
  projectData,   \* the data collected by the steps
  resultsView,   \* state of ResultsDisplay while it is mounted
  \* the image processor (ImageProcessor component, imageProcessing.js)
  image,         \* the image handed to the processor
  status,        \* 'idle', 'processing', 'completed' or 'error'
  processingStep, \* index of the processing step shown
  progress,      \* percentage shown
  correctedImage, \* the corrected image, once there is one
  run,           \* where processImage is waiting, and its local homography and canvas
  calls,         \* the calls made to onProcessingComplete and onError, in order
  \* bifurcation detection (geometryCalculations.js)
  centerlines,   \* the three centerlines: main, branch1, branch2
  detection,     \* outcome of detectBifurcationPoint, once called
  \* the angle optimizers (mathValidation.js, vesselTracking, correctedMath)
  optimizer,     \* the optimizer called: whose code is running
  vessel3DDirections, \* the vessel directions it was called with
  search,        \* its local variables and the loop it is in
  optimum,       \* what it returned or threw, once it has
  earlier,       \* what the call before this one returned or threw, if there was one
  \* the single-vessel score (mathValidation.js)
  scoredVessel, \* the vessel direction handed to calculateSingleVesselScore
  scoredView, \* the viewing direction handed to it
  singleScore, \* the score it returned, once called
  \* vessel tracking (vesselTracking: extractVesselCenterline)
  imageData, \* the image handed to extractVesselCenterline: width, height and gray levels
  seedPoints, \* the seed points handed to it
  maxLength, \* its segmentLength argument, in pixels
  tracker, \* its local variables and the loop it is in
  tracedCenterline, \* the centerline it returned or the error it threw, once it has
  \* conversion of an image segment to a 3D direction (geometryCalculations.js, vesselTracking)
  markedSegment, \* the two image points of a marked vessel segment
  viewAngles, \* the projection angles of the image, in degrees
  converted, \* the outcomes of the two conversions, once made
  \* the 3D view (Bifurcation3D.jsx)
  vesselData, \* the vesselData property of Bifurcation3D: the data of both images
  vessels3D, \* the reconstructed vessels, once the effect has run
  optimalAngles, \* the optimal angles the 3D view reports, once set
  \* the segmentation of a CT volume (dicomProcessor.js)
  ctVolume, \* the 3D volume: data, dimensions and spacing
  seedVoxels, \* the seed points of the call, in volume coordinates
  growOptions, \* the options of the call
  grower, \* the local variables of segmentCoronaryArteries and of the region growing
  segmentation  \* None, or the returned segmentation

geomVars == <<angles, rotation, backAngles>>
reconVars == <<projection1, projection2, vesselDirections, planeAngles,
               vessels, simOptimal>>
solveVars == <<system, solution>>
appVars == <<currentStep, projectData, resultsView>>
procVars == <<image, status, processingStep, progress, correctedImage, run, calls>>
bifVars == <<centerlines, detection>>
optVars == <<optimizer, vessel3DDirections, search, optimum, earlier>>
scoreVars == <<scoredVessel, scoredView, singleScore>>
trackVars == <<imageData, seedPoints, maxLength, tracker, tracedCenterline>>
dirVars == <<markedSegment, viewAngles, converted>>
viewVars == <<vesselData, vessels3D, optimalAngles>>
growVars == <<ctVolume, seedVoxels, growOptions, grower, segmentation>>
vars == <<geomVars, reconVars, solveVars, appVars, procVars, bifVars, optVars, scoreVars, trackVars, dirVars, viewVars, growVars>>

\* what the operations of one area leave alone
OutsideGeom == <<reconVars, solveVars, appVars, procVars, bifVars, optVars, scoreVars, trackVars, dirVars, viewVars, growVars>>
OutsideRecon == <<geomVars, solveVars, appVars, procVars, bifVars, optVars, scoreVars, trackVars, dirVars, viewVars, growVars>>
OutsideSolve == <<geomVars, reconVars, appVars, procVars, bifVars, optVars, scoreVars, trackVars, dirVars, viewVars, growVars>>
OutsideApp == <<geomVars, reconVars, solveVars, procVars, bifVars, optVars, scoreVars, trackVars, dirVars, viewVars, growVars>>
OutsideProc == <<geomVars, reconVars, solveVars, appVars, bifVars, optVars, scoreVars, trackVars, dirVars, viewVars, growVars>>
OutsideBif == <<geomVars, reconVars, solveVars, appVars, procVars, optVars, scoreVars, trackVars, dirVars, viewVars, growVars>>
OutsideOpt == <<geomVars, reconVars, solveVars, appVars, procVars, bifVars, scoreVars, trackVars, dirVars, viewVars, growVars>>
OutsideScore == <<geomVars, reconVars, solveVars, appVars, procVars, bifVars, optVars, trackVars, dirVars, viewVars, growVars>>
OutsideTrack == <<geomVars, reconVars, solveVars, appVars, procVars, bifVars, optVars, scoreVars, dirVars, viewVars, growVars>>
OutsideDir == <<geomVars, reconVars, solveVars, appVars, procVars, bifVars, optVars, scoreVars, trackVars, viewVars, growVars>>
OutsideView == <<geomVars, reconVars, solveVars, appVars, procVars, bifVars, optVars, scoreVars, trackVars, dirVars, growVars>>
OutsideGrow == <<geomVars, reconVars, solveVars, appVars, procVars, bifVars, optVars, scoreVars, trackVars, dirVars, viewVars>>

-----------------------------------------------------------------------------
(* Fixed-point kernel *)

\* One unit of a real number; not a program constant.
Scale == 100 * 100

\* rounding allowed on the length of a unit vector, in units of 1 / Scale
UnitTolerance == 3

\* a result not yet computed, and a computed one
None == << >>
Some(x) == << x >>

\* the outcome of a call: a returned value, or a thrown Error with its message
Ok(v) == << "ok", v >>
Err(m) == << "error", m >>
IsOk(r) == r[1] = "ok"
IsErr(r) == r[1] = "error"

Abs(x) == IF x < 0 THEN -x ELSE x
Sgn(x) == IF x < 0 THEN -1 ELSE IF x > 0 THEN 1 ELSE 0
Max2(a, b) == IF a >= b THEN a ELSE b
Min2(a, b) == IF a <= b THEN a ELSE b

\* a / b rounded to nearest, symmetric about zero (b > 0)
RoundDiv(a, b) == Sgn(a) * ((2 * Abs(a) + b) \div (2 * b))

\* product of two fixed-point numbers
Mul(a, b) == RoundDiv(a * b, Scale)

RECURSIVE SqrtSearch(_, _, _)
SqrtSearch(n, lo, hi) ==
  IF lo >= hi THEN lo
  ELSE LET mid == (lo + hi + 1) \div 2
       IN IF mid * mid <= n THEN SqrtSearch(n, mid, hi)
          ELSE SqrtSearch(n, lo, mid - 1)

\* Math.sqrt of a natural number, rounded to nearest
Isqrt(n) ==
  LET r == SqrtSearch(n, 0, 46340)
  IN IF n - r * r > r THEN r + 1 ELSE r

\* Math.sin of the whole degrees 0..90, times Scale
SinTable ==
  << 175, 349, 523, 698, 872, 1045, 1219, 1392, 1564, 1736,
     1908, 2079, 2250, 2419, 2588, 2756, 2924, 3090, 3256, 3420,
     3584, 3746, 3907, 4067, 4226, 4384, 4540, 4695, 4848, 5000,
     5150, 5299, 5446, 5592, 5736, 5878, 6018, 6157, 6293, 6428,
     6561, 6691, 6820, 6947, 7071, 7193, 7314, 7431, 7547, 7660,
     7771, 7880, 7986, 8090, 8192, 8290, 8387, 8480, 8572, 8660,
     8746, 8829, 8910, 8988, 9063, 9135, 9205, 9272, 9336, 9397,
     9455, 9511, 9563, 9613, 9659, 9703, 9744, 9781, 9816, 9848,
     9877, 9903, 9925, 9945, 9962, 9976, 9986, 9994, 9998, 10000 >>

\* Math.sin(d * Math.PI / 180) for a whole number of degrees d
SinDeg(d) ==
  LET m == ((d % 360) + 360) % 360
      q == IF m <= 90 THEN m
           ELSE IF m <= 180 THEN 180 - m
           ELSE IF m <= 270 THEN m - 180
           ELSE 360 - m
      v == IF q = 0 THEN 0 ELSE SinTable[q]
  IN IF m <= 180 THEN v ELSE -v

\* Math.cos(d * Math.PI / 180) for a whole number of degrees d
CosDeg(d) == SinDeg(d + 90)

-----------------------------------------------------------------------------
(* 3x3 matrices and 3-vectors *)

multiplyMatrices3x3(A, B) ==
  [i \in 1..3 |-> [j \in 1..3 |->
     RoundDiv(A[i][1] * B[1][j] + A[i][2] * B[2][j] + A[i][3] * B[3][j], Scale)]]

multiplyMatrixVector(M, v) ==
  [i \in 1..3 |-> RoundDiv(M[i][1] * v[1] + M[i][2] * v[2] + M[i][3] * v[3], Scale)]

transposeMatrix3x3(M) == [i \in 1..3 |-> [j \in 1..3 |-> M[j][i]]]

\* the rotation about the Z axis by raoLao and about the X axis by cranialCaudal
R_rao(raoLao) ==
  << << CosDeg(raoLao), -SinDeg(raoLao), 0 >>,
     << SinDeg(raoLao),  CosDeg(raoLao), 0 >>,
     << 0, 0, Scale >> >>

R_cranial(cranialCaudal) ==
  << << Scale, 0, 0 >>,
     << 0, CosDeg(cranialCaudal), -SinDeg(cranialCaudal) >>,
     << 0, SinDeg(cranialCaudal),  CosDeg(cranialCaudal) >> >>

-----------------------------------------------------------------------------
(* Projection geometry *)

\* the matrix with the sign of its last entry of the second row dropped
rotationMatrixWithoutSign(raoLao, cranialCaudal) ==
  LET cosRao == CosDeg(raoLao)
      sinRao == SinDeg(raoLao)
      cosCranial == CosDeg(cranialCaudal)
      sinCranial == SinDeg(cranialCaudal)
  IN << << cosRao, -Mul(sinRao, cosCranial), Mul(sinRao, sinCranial) >>,
        << sinRao, Mul(cosRao, cosCranial), Mul(cosRao, sinCranial) >>,
        << 0, sinCranial, cosCranial >> >>

\* geometryCalculations.js: the matrix is written out entry by entry
projectionAnglesToRotationMatrix(raoLao, cranialCaudal) ==
  LET cosRao == CosDeg(raoLao)
      sinRao == SinDeg(raoLao)
      cosCranial == CosDeg(cranialCaudal)
      sinCranial == SinDeg(cranialCaudal)
  IN << << cosRao, -Mul(sinRao, cosCranial), Mul(sinRao, sinCranial) >>,
        << sinRao, Mul(cosRao, cosCranial), -Mul(cosRao, sinCranial) >>,
        << 0, sinCranial, cosCranial >> >>

\* source and detector distances of createProjectionMatrix, in mm
sourceDistance == 1000
detectorDistance == 300

\* correctedMath: R = R_cranial * R_rao, and the column -R * (R * cameraPos)
createProjectionMatrix(raoLao, cranialCaudal) ==
  LET R == multiplyMatrices3x3(R_cranial(cranialCaudal), R_rao(raoLao))
      totalDistance == sourceDistance + detectorDistance
      cameraPos == << 0, 0, totalDistance >>
      rotatedCameraPos == multiplyMatrixVector(R, cameraPos)
      Rt == multiplyMatrixVector(R, [i \in 1..3 |-> -rotatedCameraPos[i]])
  IN [i \in 1..3 |-> << R[i][1], R[i][2], R[i][3], Rt[i] >>]

\* vesselTracking: the inverse rotation of calculate3DVesselDirection
invRotation3D(raoLao, cranialCaudal) ==
  LET cosRao == CosDeg(raoLao)
      sinRao == SinDeg(raoLao)
      cosCranial == CosDeg(cranialCaudal)
      sinCranial == SinDeg(cranialCaudal)
      invRaoMatrix == << << cosRao, sinRao, 0 >>,
                         << -sinRao, cosRao, 0 >>,
                         << 0, 0, Scale >> >>
      invCranialMatrix == << << Scale, 0, 0 >>,
                             << 0, cosCranial, sinCranial >>,
                             << 0, -sinCranial, cosCranial >> >>
  IN multiplyMatrices3x3(invRaoMatrix, invCranialMatrix)

\* mathValidation.js: the direction from the patient toward the detector
calculateViewingDirection(raoLao, cranialCaudal) ==
  << -Mul(SinDeg(raoLao), CosDeg(cranialCaudal)),
     Mul(CosDeg(raoLao), CosDeg(cranialCaudal)),
     SinDeg(cranialCaudal) >>

\* the least t in lo..hi with a * cos t - b * sin t <= 0 (a, b >= 0, not
\* both 0; the left side falls as t grows and is <= 0 at t = 90)
RECURSIVE FirstPast(_, _, _, _)
FirstPast(a, b, lo, hi) ==
  IF lo >= hi THEN lo
  ELSE LET mid == (lo + hi) \div 2
       IN IF a * CosDeg(mid) - b * SinDeg(mid) <= 0
          THEN FirstPast(a, b, lo, mid)
          ELSE FirstPast(a, b, mid + 1, hi)

\* Math.atan2(x, y) * 180 / Math.PI to the nearest whole degree: the angle t
\* in (-180, 180] whose direction (sin t, cos t) is the direction of (x, y)
Atan2Deg(x, y) ==
  IF x = 0 /\ y = 0 THEN 0
  ELSE LET a == Abs(x)
           b == Abs(y)
           p == FirstPast(a, b, 0, 90)
           q == IF p > 0 /\ Abs(a * CosDeg(p - 1) - b * SinDeg(p - 1))
                             <= Abs(a * CosDeg(p) - b * SinDeg(p))
                THEN p - 1 ELSE p
           u == IF y >= 0 THEN q ELSE 180 - q
       IN IF x >= 0 THEN u ELSE -u

\* the least t in lo..hi with den * sin t >= num * Scale (0 <= num <= den)
RECURSIVE FirstSine(_, _, _, _)
FirstSine(num, den, lo, hi) ==
  IF lo >= hi THEN lo
  ELSE LET mid == (lo + hi) \div 2
       IN IF den * SinDeg(mid) >= num * Scale
          THEN FirstSine(num, den, lo, mid)
          ELSE FirstSine(num, den, mid + 1, hi)

\* Math.asin(num / den) * 180 / Math.PI to the nearest whole degree
\* (den > 0 and |num| <= den)
AsinDeg(num, den) ==
  LET a == Abs(num)
      p == FirstSine(a, den, 0, 90)
      q == IF p > 0 /\ Abs(a * Scale - den * SinDeg(p - 1))
                        <= Abs(a * Scale - den * SinDeg(p))
           THEN p - 1 ELSE p
  IN IF num >= 0 THEN q ELSE -q

\* geometryCalculations.js: angles in tenths of a degree (rounded to one
\* decimal place); a zero vector gives nz / r = NaN
normalVectorToProjectionAngles(normal) ==
  LET nx == normal[1]
      ny == normal[2]
      nz == normal[3]
      rao0 == 10 * Atan2Deg(nx, ny)
      r == Isqrt(nx * nx + ny * ny + nz * nz)
      rao1 == IF rao0 > 900 THEN rao0 - 1800 ELSE rao0
      rao2 == IF rao1 < -900 THEN rao1 + 1800 ELSE rao1
  IN [raoLao |-> rao2,
      cranialCaudal |-> IF r = 0 THEN "NaN"
                        ELSE Max2(-450, Min2(450, 10 * AsinDeg(nz, r)))]

-----------------------------------------------------------------------------
(* Specification of the projection geometry: the angle pair is drawn, then *)
(* each builder is applied to it.                                          *)

\* spacing in degrees of the angle pairs tried
AngleStep == 15

RaoRange == {a \in -90..90 : a % AngleStep = 0}
CranialRange == {a \in -45..45 : a % AngleStep = 0}

GeomStart ==
  /\ angles \in RaoRange \X CranialRange
  /\ rotation = None
  /\ backAngles = None

\* the geometry left out of a specification that does not use it
GeomIdle == angles = << 0, 0 >> /\ rotation = None /\ backAngles = None

BuildRotation ==
  /\ rotation = None
  /\ rotation' = Some([matrix |-> projectionAnglesToRotationMatrix(angles[1], angles[2]),
                       projection |-> createProjectionMatrix(angles[1], angles[2]),
                       inverse |-> invRotation3D(angles[1], angles[2])])
  /\ UNCHANGED <<angles, backAngles, OutsideGeom>>

RoundTrip ==
  /\ backAngles = None
  /\ backAngles' = Some(normalVectorToProjectionAngles(
                          calculateViewingDirection(angles[1], angles[2])))
  /\ UNCHANGED <<angles, rotation, OutsideGeom>>

GeomNext == BuildRotation \/ RoundTrip

-----------------------------------------------------------------------------
(* Two-view reconstruction and the bifurcation plane *)

\* imageCoordinatesTo3DDirection without the division by length2D
imageCoordinatesUnnormalized(x1, y1, x2, y2, width, height, rotationMatrix) ==
  LET dx == RoundDiv(2 * x2 * Scale, width) - RoundDiv(2 * x1 * Scale, width)
      dy == RoundDiv(2 * y1 * Scale, height) - RoundDiv(2 * y2 * Scale, height)
  IN IF Isqrt(dx * dx + dy * dy) = 0 THEN Err("Points are identical")
     ELSE Ok(multiplyMatrixVector(transposeMatrix3x3(rotationMatrix), << dx, dy, 0 >>))

\* geometryCalculations.js: the 3D direction of an image segment
imageCoordinatesTo3DDirection(x1, y1, x2, y2, imageWidth, imageHeight, rotationMatrix) ==
  LET normX1 == RoundDiv(2 * x1 * Scale, imageWidth) - Scale
      normY1 == Scale - RoundDiv(2 * y1 * Scale, imageHeight)
      normX2 == RoundDiv(2 * x2 * Scale, imageWidth) - Scale
      normY2 == Scale - RoundDiv(2 * y2 * Scale, imageHeight)
      dx == normX2 - normX1
      dy == normY2 - normY1
      length2D == Isqrt(dx * dx + dy * dy)
  IN IF length2D = 0 THEN Err("Points are identical")
     ELSE LET dirX == RoundDiv(dx * Scale, length2D)
              dirY == RoundDiv(dy * Scale, length2D)
              imageDir == << dirX, dirY, 0 >>
              invRotation == transposeMatrix3x3(rotationMatrix)
          IN Ok(multiplyMatrixVector(invRotation, imageDir))

\* vesselTracking: the 3D direction from the first to the last point of a
\* centerline
calculate3DVesselDirection(centerlinePoints, raoLao, cranialCaudal, width, height) ==
  IF Len(centerlinePoints) < 2 THEN Err("At least 2 centerline points required")
  ELSE
    LET firstPoint == centerlinePoints[1]
        lastPoint == centerlinePoints[Len(centerlinePoints)]
        dx == RoundDiv(2 * (lastPoint.x - firstPoint.x) * Scale, width)
        dy == -RoundDiv(2 * (lastPoint.y - firstPoint.y) * Scale, height)
        length2D == Isqrt(dx * dx + dy * dy)
    IN IF length2D = 0 THEN Err("Vessel direction is zero length")
       ELSE
         LET imageDirection == << RoundDiv(dx * Scale, length2D),
                                  RoundDiv(dy * Scale, length2D), 0 >>
             worldDirection == multiplyMatrixVector(invRotation3D(raoLao, cranialCaudal),
                                                    imageDirection)
             length3D == Isqrt(worldDirection[1] * worldDirection[1]
                               + worldDirection[2] * worldDirection[2]
                               + worldDirection[3] * worldDirection[3])
         IN IF length3D = 0 THEN Err("3D direction calculation resulted in zero vector")
            ELSE Ok(<< RoundDiv(worldDirection[1] * Scale, length3D),
                       RoundDiv(worldDirection[2] * Scale, length3D),
                       RoundDiv(worldDirection[3] * Scale, length3D) >>)

\* the local normalizeVector of reconstruct3DVesselDirections and of the
\* simulator: a zero vector is returned as [0, 0, 0]
normalizeVector(vec) ==
  LET length == Isqrt(vec[1] * vec[1] + vec[2] * vec[2] + vec[3] * vec[3])
  IN IF length > 0
     THEN << RoundDiv(vec[1] * Scale, length), RoundDiv(vec[2] * Scale, length),
             RoundDiv(vec[3] * Scale, length) >>
     ELSE << 0, 0, 0 >>

\* geometryCalculations.js: both vessels from both projections, averaged
reconstruct3DVesselDirections(p1, p2) ==
  LET rotation1 == projectionAnglesToRotationMatrix(p1.raoLao, p1.cranialCaudal)
      rotation2 == projectionAnglesToRotationMatrix(p2.raoLao, p2.cranialCaudal)
      dir(p, seg, rot) ==
        imageCoordinatesTo3DDirection(seg.start[1], seg.start[2], seg.end[1], seg.end[2],
                                      p.imageWidth, p.imageHeight, rot)
      vessel1Dir1 == dir(p1, p1.points.vessel1, rotation1)
      vessel1Dir2 == dir(p2, p2.points.vessel1, rotation2)
      vessel2Dir1 == dir(p1, p1.points.vessel2, rotation1)
      vessel2Dir2 == dir(p2, p2.points.vessel2, rotation2)
      half(a, b) == [i \in 1..3 |-> RoundDiv(a[2][i] + b[2][i], 2)]
  IN IF IsErr(vessel1Dir1) THEN vessel1Dir1
     ELSE IF IsErr(vessel1Dir2) THEN vessel1Dir2
     ELSE IF IsErr(vessel2Dir1) THEN vessel2Dir1
     ELSE IF IsErr(vessel2Dir2) THEN vessel2Dir2
     ELSE Ok([vessel1 |-> normalizeVector(half(vessel1Dir1, vessel1Dir2)),
              vessel2 |-> normalizeVector(half(vessel2Dir1, vessel2Dir2))])

crossProduct(a, b) ==
  << Mul(a[2], b[3]) - Mul(a[3], b[2]),
     Mul(a[3], b[1]) - Mul(a[1], b[3]),
     Mul(a[1], b[2]) - Mul(a[2], b[1]) >>

subtractVectors(a, b) == << a[1] - b[1], a[2] - b[2], a[3] - b[3] >>

VecLength(v) == Isqrt(v[1] * v[1] + v[2] * v[2] + v[3] * v[3])

\* geometryCalculations.js: the unit normal of the plane of two directions
calculatePlaneNormal(direction1, direction2) ==
  LET normal == crossProduct(direction1, direction2)
      length == VecLength(normal)
  IN IF length = 0 THEN Err("Directions are parallel - cannot determine plane")
     ELSE Ok(<< RoundDiv(normal[1] * Scale, length), RoundDiv(normal[2] * Scale, length),
                RoundDiv(normal[3] * Scale, length) >>)

\* ResultsDisplay: the angles of a plane normal, or the error that was thrown
NormalAngles(planeNormal) ==
  IF IsErr(planeNormal) THEN planeNormal
  ELSE Ok(normalVectorToProjectionAngles(planeNormal[2]))

\* ResultsDisplay: from the reconstructed directions to the optimal angles
PlaneAngles(directions) ==
  IF IsErr(directions) THEN directions
  ELSE NormalAngles(calculatePlaneNormal(directions[2].vessel1, directions[2].vessel2))

\* BifurcationSimulator.jsx: the optimal angles from the normal of
\* (branch1 - main) x (branch2 - main), in tenths of a degree
simulatorOptimalViewingAngles(v) ==
  LET vec1 == subtractVectors(v.branch1, v.main)
      vec2 == subtractVectors(v.branch2, v.main)
      normal == crossProduct(vec1, vec2)
      normalizedNormal == normalizeVector(normal)
      optimalRaoLao == 10 * Atan2Deg(normalizedNormal[1], normalizedNormal[2])
      optimalCranialCaudal == 10 * AsinDeg(normalizedNormal[3], Scale)
  IN Ok([raoLao |-> Max2(-900, Min2(900, optimalRaoLao)),
         cranialCaudal |-> Max2(-450, Min2(450, optimalCranialCaudal))])

-----------------------------------------------------------------------------
(* Specification of the reconstruction: two projections of two marked      *)
(* vessels are drawn, reconstructed, and the plane normal of the result is *)
(* converted to angles; the simulator computes its angles from its three   *)
(* vessel directions.                                                      *)

\* image size assumed by ResultsDisplay
imageWidth == 800
imageHeight == 600

\* length in pixels of the marked segments
SegmentReach == 100

Seg(x1, y1, x2, y2) == [start |-> << x1, y1 >>, end |-> << x2, y2 >>]

\* marked segments from the image centre: right, left, up, diagonal, and
\* one whose two points coincide
SegmentSet ==
  LET cx == imageWidth \div 2
      cy == imageHeight \div 2
  IN { Seg(cx, cy, cx + SegmentReach, cy), Seg(cx + SegmentReach, cy, cx, cy),
       Seg(cx, cy, cx, cy - SegmentReach),
       Seg(cx, cy, cx + SegmentReach, cy - SegmentReach),
       Seg(cx, cy, cx, cy) }

\* projection angle pairs of the two images
ViewSet == { << 0, 0 >>, << 30, 0 >>, << -30, 20 >> }

Projection(view, s1, s2) ==
  [points |-> [vessel1 |-> s1, vessel2 |-> s2],
   raoLao |-> view[1], cranialCaudal |-> view[2],
   imageWidth |-> imageWidth, imageHeight |-> imageHeight]

\* the simulator's initial vessels, and direction triples handed to it
DefaultVessels ==
  [main |-> << 0, Scale, 0 >>,
   branch1 |-> << -(Scale \div 2), Scale \div 2, 3 * (Scale \div 10) >>,
   branch2 |-> << Scale \div 2, Scale \div 2, -2 * (Scale \div 10) >>]

VesselChoices ==
  { DefaultVessels,
    [main |-> << 0, Scale, 0 >>, branch1 |-> << Scale, 0, 0 >>, branch2 |-> << 0, 0, Scale >>],
    [main |-> << 0, Scale, 0 >>, branch1 |-> << Scale, 0, 0 >>, branch2 |-> << Scale, 0, 0 >>],
    [main |-> << 0, Scale, 0 >>, branch1 |-> << 0, Scale, 0 >>, branch2 |-> << 0, 0, Scale >>] }

ReconStart ==
  /\ \E v1, v2 \in ViewSet : \E a, b, c, d \in SegmentSet :
       /\ projection1 = Projection(v1, a, b)
       /\ projection2 = Projection(v2, c, d)
  /\ vesselDirections = None
  /\ planeAngles = None
  /\ vessels = DefaultVessels
  /\ simOptimal = None

ReconIdle ==
  /\ projection1 = Projection(<< 0, 0 >>, Seg(0, 0, 0, 0), Seg(0, 0, 0, 0))
  /\ projection2 = Projection(<< 0, 0 >>, Seg(0, 0, 0, 0), Seg(0, 0, 0, 0))
  /\ vesselDirections = None
  /\ planeAngles = None
  /\ vessels = DefaultVessels
  /\ simOptimal = None

Reconstruct ==
  /\ vesselDirections = None
  /\ vesselDirections' = Some(reconstruct3DVesselDirections(projection1, projection2))
  /\ UNCHANGED <<projection1, projection2, planeAngles, vessels, simOptimal, OutsideRecon>>

\* ResultsDisplay: the plane normal of the reconstructed directions, then
\* its projection angles
PlaneNormal ==
  /\ vesselDirections # None
  /\ IsOk(vesselDirections[1])
  /\ planeAngles = None
  /\ planeAngles' = Some(PlaneAngles(vesselDirections[1]))
  /\ UNCHANGED <<projection1, projection2, vesselDirections, vessels, simOptimal, OutsideRecon>>

\* updateVesselDirections: the simulator takes measured directions
UpdateVesselDirections ==
  /\ simOptimal = None
  /\ \E v \in VesselChoices : vessels' = v
  /\ UNCHANGED <<projection1, projection2, vesselDirections, planeAngles, simOptimal, OutsideRecon>>

SimulatorOptimal ==
  /\ simOptimal = None
  /\ simOptimal' = Some(simulatorOptimalViewingAngles(vessels))
  /\ UNCHANGED <<projection1, projection2, vesselDirections, planeAngles, vessels, OutsideRecon>>

ReconNext == Reconstruct \/ PlaneNormal \/ UpdateVesselDirections \/ SimulatorOptimal


-----------------------------------------------------------------------------
(* The linear solver. Its numbers are IEEE doubles, modelled exactly as    *)
(* rationals with the two zeros, the two infinities and NaN: <<"num", n,   *)
(* d>> is n / |d| with d carrying the sign of a zero, <<"inf", s, 1>> is   *)
(* s * Infinity and <<"nan", 0, 1>> is NaN.                                *)

RECURSIVE Gcd(_, _)
Gcd(a, b) == IF b = 0 THEN a ELSE Gcd(b, a % b)

NaN == << "nan", 0, 1 >>
Inf(s) == << "inf", s, 1 >>
Zero(s) == << "num", 0, s >>
Num(n) == << "num", n, 1 >>

IsNaN(x) == x[1] = "nan"
IsInf(x) == x[1] = "inf"
IsZero(x) == x[1] = "num" /\ x[2] = 0
IsFinite(x) == x[1] = "num"

\* the sign bit as +1 or -1
SignOf(x) == IF x[1] = "inf" THEN x[2] ELSE IF x[2] # 0 THEN Sgn(x[2]) ELSE x[3]

\* n / d in lowest terms, d > 0; s is the sign of a zero result
Ratio(n, d, s) ==
  IF n = 0 THEN Zero(s)
  ELSE LET g == Gcd(Abs(n), Abs(d))
       IN << "num", Sgn(d) * (n \div g), Abs(d) \div g >>

FMul(a, b) ==
  LET s == SignOf(a) * SignOf(b)
  IN IF IsNaN(a) \/ IsNaN(b) THEN NaN
     ELSE IF IsInf(a) \/ IsInf(b)
          THEN IF IsZero(a) \/ IsZero(b) THEN NaN ELSE Inf(s)
     ELSE Ratio(a[2] * b[2], Abs(a[3]) * Abs(b[3]), s)

FSub(a, b) ==
  IF IsNaN(a) \/ IsNaN(b) THEN NaN
  ELSE IF IsInf(a) THEN IF IsInf(b) /\ a[2] = b[2] THEN NaN ELSE a
  ELSE IF IsInf(b) THEN Inf(-b[2])
  ELSE Ratio(a[2] * Abs(b[3]) - b[2] * Abs(a[3]), Abs(a[3]) * Abs(b[3]),
             IF IsZero(a) /\ IsZero(b) /\ a[3] = -1 /\ b[3] = 1 THEN -1 ELSE 1)

FDiv(a, b) ==
  LET s == SignOf(a) * SignOf(b)
  IN IF IsNaN(a) \/ IsNaN(b) THEN NaN
     ELSE IF IsInf(a) THEN IF IsInf(b) THEN NaN ELSE Inf(s)
     ELSE IF IsInf(b) THEN Zero(s)
     ELSE IF IsZero(b) THEN IF IsZero(a) THEN NaN ELSE Inf(s)
     ELSE Ratio(s * Abs(a[2]) * Abs(b[3]), Abs(a[3]) * Abs(b[2]), s)

\* Math.abs(a) > Math.abs(b): false when either is NaN
AbsGreater(a, b) ==
  IF IsNaN(a) \/ IsNaN(b) THEN FALSE
  ELSE IF IsInf(b) THEN FALSE
  ELSE IF IsInf(a) THEN TRUE
  ELSE Abs(a[2]) * Abs(b[3]) > Abs(b[2]) * Abs(a[3])

\* the row found by the pivot search of column i, scanning rows k..n
RECURSIVE FindPivot(_, _, _, _)
FindPivot(augmented, i, k, maxRow) ==
  IF k > Len(augmented) THEN maxRow
  ELSE FindPivot(augmented, i, k + 1,
                 IF AbsGreater(augmented[k][i], augmented[maxRow][i]) THEN k ELSE maxRow)

\* forward elimination from column i on: pivot search, row swap, and the
\* rows below reduced from column i to column n + 1
RECURSIVE ForwardElimination(_, _)
ForwardElimination(augmented, i) ==
  LET n == Len(augmented)
  IN IF i > n THEN augmented
     ELSE LET maxRow == FindPivot(augmented, i, i + 1, i)
              swapped == [augmented EXCEPT ![i] = augmented[maxRow],
                                          ![maxRow] = augmented[i]]
              reduced == [k \in 1..n |->
                IF k <= i THEN swapped[k]
                ELSE LET factor == FDiv(swapped[k][i], swapped[i][i])
                     IN [j \in 1..(n + 1) |->
                          IF j < i THEN swapped[k][j]
                          ELSE FSub(swapped[k][j], FMul(factor, swapped[i][j]))]]
          IN ForwardElimination(reduced, i + 1)

\* x[i] -= augmented[i][j] * x[j] for j = i + 1 .. n, in that order
RECURSIVE BackSum(_, _, _, _, _)
BackSum(augmented, x, i, j, acc) ==
  IF j > Len(augmented) THEN acc
  ELSE BackSum(augmented, x, i, j + 1, FSub(acc, FMul(augmented[i][j], x[j])))

RECURSIVE BackSubstitution(_, _, _)
BackSubstitution(augmented, x, i) ==
  IF i < 1 THEN x
  ELSE LET n == Len(augmented)
           xi == FDiv(BackSum(augmented, x, i, i + 1, augmented[i][n + 1]),
                      augmented[i][i])
       IN BackSubstitution(augmented, [x EXCEPT ![i] = xi], i - 1)

Augmented(A, b) == [i \in 1..Len(A) |-> A[i] \o << b[i] >>]

\* imageProcessing.js: gaussianElimination always returns its vector x
gaussianElimination(A, b) ==
  LET n == Len(A)
      augmented == ForwardElimination(Augmented(A, b), 1)
  IN Ok(BackSubstitution(augmented, [i \in 1..n |-> Zero(1)], n))

\* the exact sum of integer products
RECURSIVE SumTo(_, _)
SumTo(f, k) == IF k = 0 THEN 0 ELSE f[k] + SumTo(f, k - 1)

\* imageProcessing.js: solveLeastSquares by the normal equations; A and b
\* hold integers here, so A^T A and A^T b are exact
solveLeastSquares(A, b) ==
  LET m == Len(A)
      n == Len(A[1])
      AtA == [i \in 1..n |-> [j \in 1..n |->
               Num(SumTo([k \in 1..m |-> A[k][i] * A[k][j]], m))]]
      Atb == [i \in 1..n |-> Num(SumTo([k \in 1..m |-> A[k][i] * b[k]], m))]
  IN gaussianElimination(AtA, Atb)

\* the pivots the elimination divided by: the diagonal it leaves behind
Pivots(A, b) ==
  LET augmented == ForwardElimination(Augmented(A, b), 1)
  IN [i \in 1..Len(A) |-> augmented[i][i]]

-----------------------------------------------------------------------------
(* Specification of the solver: a small integer system is drawn and solved *)
(* directly or through the normal equations.                               *)

\* largest absolute value of an entry of the system
EntryMax == 1

\* number of unknowns
Unknowns == 2

Entries == -EntryMax..EntryMax

SolveStart ==
  /\ system \in [A : [1..Unknowns -> [1..Unknowns -> Entries]],
                 b : [1..Unknowns -> Entries]]
  /\ solution = None

SolveIdle ==
  /\ system = [A |-> << << 1 >> >>, b |-> << 0 >>]
  /\ solution = None

NumMatrix(A) == [i \in 1..Len(A) |-> [j \in 1..Len(A[i]) |-> Num(A[i][j])]]
NumVector(b) == [i \in 1..Len(b) |-> Num(b[i])]

GaussianElimination ==
  /\ solution = None
  /\ solution' = Some([via |-> "direct",
                       result |-> gaussianElimination(NumMatrix(system.A),
                                                      NumVector(system.b))])
  /\ UNCHANGED <<system, OutsideSolve>>

SolveLeastSquares ==
  /\ solution = None
  /\ solution' = Some([via |-> "normal",
                       result |-> solveLeastSquares(system.A, system.b)])
  /\ UNCHANGED <<system, OutsideSolve>>

SolveNext == GaussianElimination \/ SolveLeastSquares

-----------------------------------------------------------------------------
(* The wizard: App.jsx drives the steps, ResultsDisplay.jsx computes the   *)
(* result when the last step is shown.                                     *)

\* App.jsx: the number of steps
StepCount == 9

\* a field that holds null or undefined
Null == << >>

InitialProjectData ==
  [image1 |-> Null, image1Angles |-> [raoLao |-> 0, cranialCaudal |-> 0],
   image1VesselData |-> Null,
   image2 |-> Null, image2Angles |-> [raoLao |-> 0, cranialCaudal |-> 0],
   image2VesselData |-> Null,
   results |-> Null,
   \* read by ResultsDisplay; no field of the initial object
   image1Points |-> Null, image2Points |-> Null]

\* handleNext, handleBack
NextStep(step) == IF step < StepCount - 1 THEN step + 1 ELSE step
PreviousStep(step) == IF step > 0 THEN step - 1 ELSE step

\* ResultsDisplay on mount: isCalculating, no results, no error
MountedResults(step) ==
  IF step = StepCount - 1
  THEN Some([isCalculating |-> TRUE, results |-> Null, error |-> Null])
  ELSE None

\* ResultsDisplay: the projection handed to the reconstruction
ProjectionOf(points, imageAngles) ==
  [points |-> points,
   raoLao |-> imageAngles.raoLao, cranialCaudal |-> imageAngles.cranialCaudal,
   imageWidth |-> imageWidth, imageHeight |-> imageHeight]

\* ResultsDisplay.calculateOptimalAngles: the error message or the angles
calculateOptimalAngles(data) ==
  IF data.image1Points = Null \/ data.image2Points = Null
  THEN Err("Missing point data for one or both images")
  ELSE PlaneAngles(reconstruct3DVesselDirections(
                     ProjectionOf(data.image1Points[1], data.image1Angles),
                     ProjectionOf(data.image2Points[1], data.image2Angles)))

-----------------------------------------------------------------------------
(* Specification of the wizard *)

\* images a user captures, and angles a user types
ImageSet == { "angiogram" }
TypedRao == { 0, 30 }
TypedCranial == { 0, 20 }

AppStart ==
  /\ currentStep = 0
  /\ projectData = InitialProjectData
  /\ resultsView = None

AppIdle == AppStart

\* step 0: Get Started
GetStarted ==
  /\ currentStep = 0
  /\ currentStep' = NextStep(currentStep)
  /\ UNCHANGED <<projectData, resultsView, OutsideApp>>

\* steps 1 and 4: onImageCapture
ImageCaptured ==
  /\ currentStep \in {1, 4}
  /\ \E captured \in ImageSet :
       projectData' = IF currentStep = 1
                      THEN [projectData EXCEPT !.image1 = Some(captured)]
                      ELSE [projectData EXCEPT !.image2 = Some(captured)]
  /\ currentStep' = NextStep(currentStep)
  /\ UNCHANGED <<resultsView, OutsideApp>>

\* steps 2 and 5: onChange of an angle input
AngleChanged ==
  /\ currentStep \in {2, 5}
  /\ \E rao \in TypedRao, cranial \in TypedCranial :
       LET typed == [raoLao |-> rao, cranialCaudal |-> cranial]
       IN projectData' = IF currentStep = 2
                         THEN [projectData EXCEPT !.image1Angles = typed]
                         ELSE [projectData EXCEPT !.image2Angles = typed]
  /\ UNCHANGED <<currentStep, resultsView, OutsideApp>>

\* steps 2 and 5: Continue
Continue ==
  /\ currentStep \in {2, 5}
  /\ currentStep' = NextStep(currentStep)
  /\ UNCHANGED <<projectData, resultsView, OutsideApp>>

\* steps 2 to 7: Back
Back ==
  /\ currentStep \in 2..7
  /\ currentStep' = PreviousStep(currentStep)
  /\ UNCHANGED <<projectData, resultsView, OutsideApp>>

\* steps 3 and 6: onVesselDataExtracted with the tracker's data
VesselDataExtracted ==
  /\ currentStep \in {3, 6}
  /\ projectData' =
       IF currentStep = 3
       THEN [projectData EXCEPT !.image1VesselData =
               Some([projectionAngles |-> projectData.image1Angles])]
       ELSE [projectData EXCEPT !.image2VesselData =
               Some([projectionAngles |-> projectData.image2Angles])]
  /\ currentStep' = NextStep(currentStep)
  /\ UNCHANGED <<resultsView, OutsideApp>>

\* step 7: the simulator's useCurrentAngles; its vesselData carries no
\* directions, so it holds its initial vessels. The Results step mounts.
OptimalAnglesFound ==
  /\ currentStep = 7
  /\ LET optimal == simulatorOptimalViewingAngles(DefaultVessels)[2]
     IN \E current \in { [raoLao |-> 0, cranialCaudal |-> 0], optimal } :
          projectData' = [projectData EXCEPT !.results =
                            Some([current |-> current, optimal |-> optimal])]
  /\ currentStep' = NextStep(currentStep)
  /\ resultsView' = MountedResults(NextStep(currentStep))
  /\ UNCHANGED OutsideApp

\* step 8: the effect of ResultsDisplay runs calculateOptimalAngles
CalculateOptimalAngles ==
  /\ currentStep = StepCount - 1
  /\ resultsView # None
  /\ resultsView[1].isCalculating
  /\ \E outcome \in { calculateOptimalAngles(projectData) } :
        resultsView' =
          Some([isCalculating |-> FALSE,
                results |-> IF IsOk(outcome) THEN Some(outcome[2]) ELSE Null,
                error |-> IF IsErr(outcome) THEN Some(outcome[2]) ELSE Null])
  /\ UNCHANGED <<currentStep, projectData, OutsideApp>>

\* step 8: Start Over
Restart ==
  /\ currentStep = StepCount - 1
  /\ resultsView # None
  /\ ~resultsView[1].isCalculating
  /\ currentStep' = 0
  /\ projectData' = InitialProjectData
  /\ resultsView' = None
  /\ UNCHANGED OutsideApp

AppNext ==
  \/ GetStarted \/ ImageCaptured \/ AngleChanged \/ Continue \/ Back
  \/ VesselDataExtracted \/ OptimalAnglesFound \/ CalculateOptimalAngles
  \/ Restart

-----------------------------------------------------------------------------
(* Perspective correction. The first two rows of a homography are held in  *)
(* millionths and its last row in units, so a determinant is an integer    *)
(* count of 1e-12.                                                         *)

\* 1e-10 as a count of 1e-12
DetThreshold == 100

Determinant(matrix) ==
  LET a == matrix[1][1]  b == matrix[1][2]  c == matrix[1][3]
      d == matrix[2][1]  e == matrix[2][2]  f == matrix[2][3]
      g == matrix[3][1]  h == matrix[3][2]  i == matrix[3][3]
  IN a * (e * i - f * h) - b * (d * i - f * g) + c * (d * h - e * g)

\* the cofactors without the transposition that makes them the adjugate
CofactorMatrix(matrix) ==
  LET a == matrix[1][1]  b == matrix[1][2]  c == matrix[1][3]
      d == matrix[2][1]  e == matrix[2][2]  f == matrix[2][3]
      g == matrix[3][1]  h == matrix[3][2]  i == matrix[3][3]
  IN << << e * i - f * h, f * g - d * i, d * h - e * g >>,
        << c * h - b * i, a * i - c * g, b * g - a * h >>,
        << b * f - c * e, c * d - a * f, a * e - b * d >> >>

\* the matrix of cofactors that the inverse divides by det
Adjugate(matrix) ==
  LET a == matrix[1][1]  b == matrix[1][2]  c == matrix[1][3]
      d == matrix[2][1]  e == matrix[2][2]  f == matrix[2][3]
      g == matrix[3][1]  h == matrix[3][2]  i == matrix[3][3]
  IN << << e * i - f * h, c * h - b * i, b * f - c * e >>,
        << f * g - d * i, a * i - c * g, c * d - a * f >>,
        << d * h - e * g, b * g - a * h, a * e - b * d >> >>

\* the inversion without its determinant test
invertMatrix3x3Unguarded(matrix) ==
  Ok([cofactors |-> Adjugate(matrix), det |-> Determinant(matrix)])

\* imageProcessing.js: invertMatrix3x3 throws below the threshold, else
\* returns the cofactors over det
invertMatrix3x3(matrix) ==
  IF Abs(Determinant(matrix)) < DetThreshold
  THEN Err("Matrix is not invertible")
  ELSE Ok([cofactors |-> Adjugate(matrix), det |-> Determinant(matrix)])

\* imageProcessing.js: applyPerspectiveCorrection inverts the homography
\* and maps every output pixel back through the inverse
applyPerspectiveCorrection(canvas, homography) ==
  IF IsErr(invertMatrix3x3(homography)) THEN invertMatrix3x3(homography)
  ELSE Ok([source |-> canvas, mapping |-> invertMatrix3x3(homography)[2]])

-----------------------------------------------------------------------------
(* Specification of the image processor: processImage runs from one wait   *)
(* to the next; the homography it computes is drawn from HomographySet.    *)

\* entries, in millionths, of the upper-left block of a homography
SmallEntry == 5
LargeEntry == 30

\* calls to the callbacks that are recorded
MaxCalls == 2

BlockEntries == { 0, SmallEntry, LargeEntry }

\* homographies with a translation and a perspective row: an invertible
\* one, one with two identical rows, and one with a determinant of 25e-12
PerspectiveSet ==
  { << << LargeEntry, SmallEntry, SmallEntry >>, << 0, LargeEntry, SmallEntry >>, << 1, 0, 1 >> >>,
    << << LargeEntry, SmallEntry, SmallEntry >>, << LargeEntry, SmallEntry, SmallEntry >>, << 1, 0, 1 >> >>,
    << << SmallEntry, 0, SmallEntry >>, << 0, SmallEntry, SmallEntry >>, << 1, 1, 1 >> >> }

HomographySet ==
  { << << a, b, 0 >>, << d, e, 0 >>, << 0, 0, 1 >> >> : a, b, d, e \in BlockEntries }
  \cup PerspectiveSet

NoRun == [at |-> "none", homography |-> None, canvas |-> None]

ProcStart ==
  /\ image = "photo"
  /\ status = "idle"
  /\ processingStep = 0
  /\ progress = 0
  /\ correctedImage = Null
  /\ run = NoRun
  /\ calls = << >>

ProcIdle == ProcStart

\* the catch of processImage
Failed(message) ==
  /\ status' = "error"
  /\ run' = [run EXCEPT !.at = "none"]
  /\ calls' = Append(calls, [to |-> "onError", from |-> "processImage", with |-> message])

\* the start of processImage up to its first wait
Begin ==
  /\ status' = "processing"
  /\ processingStep' = 0
  /\ progress' = 20
  /\ run' = [at |-> "load", homography |-> None, canvas |-> None]

\* the effect on mount
StartProcessing ==
  /\ status = "idle"
  /\ run.at = "none"
  /\ Begin
  /\ UNCHANGED <<image, correctedImage, calls, OutsideProc>>

\* step 1 ends: the image has loaded
ImageLoaded ==
  /\ run.at = "load"
  /\ processingStep' = 1
  /\ progress' = 40
  /\ run' = [run EXCEPT !.at = "detect"]
  /\ UNCHANGED <<image, status, correctedImage, calls, OutsideProc>>

\* step 1 ends: the image failed to load
ImageLoadFailed ==
  /\ run.at = "load"
  /\ Len(calls) < MaxCalls
  /\ Failed("load")
  /\ UNCHANGED <<image, processingStep, progress, correctedImage, OutsideProc>>

\* step 2 ends: the corners are detected on the drawn canvas
CornersDetected ==
  /\ run.at = "detect"
  /\ processingStep' = 2
  /\ progress' = 60
  /\ run' = [run EXCEPT !.at = "homography", !.canvas = Some(image)]
  /\ UNCHANGED <<image, status, correctedImage, calls, OutsideProc>>

\* step 3 ends: calculateHomography has returned
HomographyCalculated ==
  /\ run.at = "homography"
  /\ processingStep' = 3
  /\ progress' = 80
  /\ \E H \in HomographySet : run' = [run EXCEPT !.at = "apply", !.homography = Some(H)]
  /\ UNCHANGED <<image, status, correctedImage, calls, OutsideProc>>

\* step 4 ends: applyPerspectiveCorrection returns or throws
TransformationApplied ==
  /\ run.at = "apply"
  /\ Len(calls) < MaxCalls
  /\ \E corrected \in { applyPerspectiveCorrection(run.canvas[1], run.homography[1]) } :
       IF IsErr(corrected)
       THEN /\ Failed(corrected[2])
            /\ UNCHANGED <<processingStep, progress>>
       ELSE /\ processingStep' = 4
            /\ progress' = 100
            /\ run' = [run EXCEPT !.at = "finalize", !.canvas = Some(corrected[2])]
            /\ UNCHANGED <<status, calls>>
  /\ UNCHANGED <<image, correctedImage, OutsideProc>>

\* step 5 ends: the corrected image is stored and handed over
Finalized ==
  /\ run.at = "finalize"
  /\ Len(calls) < MaxCalls
  /\ correctedImage' = Some(run.canvas[1])
  /\ status' = "completed"
  /\ run' = [run EXCEPT !.at = "none"]
  /\ calls' = Append(calls, [to |-> "onProcessingComplete", from |-> "processImage",
                             with |-> run.canvas[1]])
  /\ UNCHANGED <<image, processingStep, progress, OutsideProc>>

\* Retry Processing and Reprocess
RetryProcessing ==
  /\ status \in {"error", "completed"}
  /\ correctedImage' = Null
  /\ Begin
  /\ UNCHANGED <<image, calls, OutsideProc>>

\* Use Original Image, offered in status 'error'
UseOriginalImage ==
  /\ status = "error"
  /\ Len(calls) < MaxCalls
  /\ calls' = Append(calls, [to |-> "onProcessingComplete", from |-> "Use Original Image",
                             with |-> image])
  /\ UNCHANGED <<image, status, processingStep, progress, correctedImage, run, OutsideProc>>

\* Use Corrected Image, offered in status 'completed'
UseCorrectedImage ==
  /\ status = "completed"
  /\ correctedImage # Null
  /\ Len(calls) < MaxCalls
  /\ calls' = Append(calls, [to |-> "onProcessingComplete", from |-> "Use Corrected Image",
                             with |-> correctedImage[1]])
  /\ UNCHANGED <<image, status, processingStep, progress, correctedImage, run, OutsideProc>>

ProcNext ==
  \/ StartProcessing \/ ImageLoaded \/ ImageLoadFailed \/ CornersDetected
  \/ HomographyCalculated \/ TransformationApplied \/ Finalized
  \/ RetryProcessing \/ UseOriginalImage \/ UseCorrectedImage

-----------------------------------------------------------------------------
(* Bifurcation detection. Coordinates and distances are held in tenths of  *)
(* a pixel; a score is the exact fraction <<numerator, denominator>> of    *)
(* such distances; Infinity is a distance of its own.                      *)

\* one pixel
Px == 2 * 5

\* the only member of a one-element set
The(S) == CHOOSE x \in S : TRUE

Point(x, y) == [x |-> x, y |-> y]

\* the distance Infinity
Infinity == -1

\* sums and maxima of distances with Infinity
AddDistance(a, b) == IF a = Infinity \/ b = Infinity THEN Infinity ELSE a + b
MaxDistance(a, b) == IF a = Infinity \/ b = Infinity THEN Infinity ELSE Max2(a, b)
MinDistance(a, b) == IF a = Infinity THEN b ELSE IF b = Infinity THEN a ELSE Min2(a, b)
LessDistance(a, b) == a # Infinity /\ (b = Infinity \/ a < b)

\* comparison of two scores
ScoreGreater(a, b) == a[1] * b[2] > b[1] * a[2]
ScoreEqual(a, b) == a[1] * b[2] = b[1] * a[2]

distance(p1, p2) ==
  Isqrt((p1.x - p2.x) * (p1.x - p2.x) + (p1.y - p2.y) * (p1.y - p2.y))

distanceToLineSegment(point, lineStart, lineEnd) ==
  LET A == point.x - lineStart.x
      B == point.y - lineStart.y
      C == lineEnd.x - lineStart.x
      D == lineEnd.y - lineStart.y
      dot == A * C + B * D
      lenSq == C * C + D * D
      clamped == Max2(0, Min2(lenSq, dot))
  IN IF lenSq = 0 THEN distance(point, lineStart)
     ELSE distance(point, Point(lineStart.x + RoundDiv(clamped * C, lenSq),
                                lineStart.y + RoundDiv(clamped * D, lenSq)))

RECURSIVE MinOverSegments(_, _, _, _)
MinOverSegments(point, centerline, i, minDistance) ==
  IF i > Len(centerline) - 1 THEN minDistance
  ELSE MinOverSegments(point, centerline, i + 1,
         MinDistance(minDistance,
                     distanceToLineSegment(point, centerline[i], centerline[i + 1])))

\* Infinity for a centerline of one point
getMinDistanceToLine(point, centerline) ==
  MinOverSegments(point, centerline, 1, Infinity)

\* the distances of a point to the three centerlines
ThreeDistances(point, lines) ==
  << getMinDistanceToLine(point, lines[1]), getMinDistanceToLine(point, lines[2]),
     getMinDistanceToLine(point, lines[3]) >>

TotalOf(d) == AddDistance(AddDistance(d[1], d[2]), d[3])
MaxOf(d) == MaxDistance(MaxDistance(d[1], d[2]), d[3])

\* 1 / (1 + maxDistance) * 1 / (1 + totalDistance); 0 when a distance is Infinity
ClosestScore(d) ==
  IF TotalOf(d) = Infinity THEN << 0, 1 >>
  ELSE << Px * Px, (Px + MaxOf(d)) * (Px + TotalOf(d)) >>

\* the scan of findClosestApproachPoint from candidate k on
RECURSIVE ClosestScan(_, _, _, _)
ClosestScan(allPoints, lines, k, best) ==
  IF k > Len(allPoints) THEN best
  ELSE ClosestScan(allPoints, lines, k + 1,
         The({ IF LessDistance(TotalOf(d), best.minTotalDistance)
                  /\ ScoreGreater(ClosestScore(d), best.bestScore)
               THEN [minTotalDistance |-> TotalOf(d), bestScore |-> ClosestScore(d),
                     bestPoint |-> Some(allPoints[k])]
               ELSE best : d \in { ThreeDistances(allPoints[k], lines) } }))

\* a candidate [point, score], or Null
findClosestApproachPoint(lines) ==
  The({ IF found.bestPoint = Null THEN Null
        ELSE Some([point |-> found.bestPoint[1], score |-> found.bestScore]) :
        found \in { ClosestScan(lines[1] \o lines[2] \o lines[3], lines, 1,
                      [minTotalDistance |-> Infinity, bestScore |-> << 0, 1 >>,
                       bestPoint |-> Null]) } })

\* a unit direction held in 1 / Scale, or Null
calculateVesselDirection(centerline) ==
  IF Len(centerline) < 2 THEN Null
  ELSE The({ IF length = 0 THEN Null
             ELSE Some(Point(RoundDiv((centerline[Len(centerline)].x - centerline[1].x) * Scale, length),
                             RoundDiv((centerline[Len(centerline)].y - centerline[1].y) * Scale, length))) :
             length \in { distance(centerline[Len(centerline)], centerline[1]) } })

\* the crossing of two lines given by point and direction, or Null
findLineIntersection(point1, dir1, point2, dir2) ==
  LET det == Mul(dir1.x, dir2.y) - Mul(dir1.y, dir2.x)
      dx == point2.x - point1.x
      dy == point2.y - point1.y
      t == RoundDiv(dx * dir2.y - dy * dir2.x, det)
  IN IF det = 0 THEN Null
     ELSE Some(Point(point1.x + RoundDiv(t * dir1.x, Scale),
                     point1.y + RoundDiv(t * dir1.y, Scale)))

\* 1 / (1 + totalDistance + maxDistance)
calculateBifurcationScore(point, lines) ==
  The({ IF TotalOf(d) = Infinity THEN << 0, 1 >>
        ELSE << Px, Px + TotalOf(d) + MaxOf(d) >> :
        d \in { ThreeDistances(point, lines) } })

\* the centroid of the crossings that exist
IntersectionCentroid(crossings, lines) ==
  IF Len(crossings) = 0 THEN Null
  ELSE The({ Some([point |-> c, score |-> calculateBifurcationScore(c, lines)]) :
             c \in { Point(RoundDiv(SumTo([k \in 1..Len(crossings) |-> crossings[k].x],
                                          Len(crossings)), Len(crossings)),
                           RoundDiv(SumTo([k \in 1..Len(crossings) |-> crossings[k].y],
                                          Len(crossings)), Len(crossings))) } })

findVesselIntersection(lines) ==
  The({ IF dirs[1] = Null \/ dirs[2] = Null \/ dirs[3] = Null THEN Null
        ELSE IntersectionCentroid(
               findLineIntersection(lines[1][1], dirs[1][1], lines[2][1], dirs[2][1])
               \o findLineIntersection(lines[1][1], dirs[1][1], lines[3][1], dirs[3][1])
               \o findLineIntersection(lines[2][1], dirs[2][1], lines[3][1], dirs[3][1]),
               lines) :
        dirs \in { << calculateVesselDirection(lines[1]), calculateVesselDirection(lines[2]),
                      calculateVesselDirection(lines[3]) >> } })

\* the centroid of three endpoints with its score 1 / (1 + maxDist + avgDist)
CentroidOf(mainEnd, branch1End, branch2End) ==
  The({ The({ [point |-> centroid,
               score |-> << 3 * Px, 3 * Px + 3 * MaxOf(d) + TotalOf(d) >>] :
               d \in { << distance(centroid, mainEnd), distance(centroid, branch1End),
                          distance(centroid, branch2End) >> } }) :
        centroid \in { Point(RoundDiv(mainEnd.x + branch1End.x + branch2End.x, 3),
                             RoundDiv(mainEnd.y + branch1End.y + branch2End.y, 3)) } })

Endpoints(centerline) == << centerline[1], centerline[Len(centerline)] >>

\* the eight endpoint combinations in the order of the three nested loops
EndpointChoices ==
  << << 1, 1, 1 >>, << 1, 1, 2 >>, << 1, 2, 1 >>, << 1, 2, 2 >>,
     << 2, 1, 1 >>, << 2, 1, 2 >>, << 2, 2, 1 >>, << 2, 2, 2 >> >>

RECURSIVE CentroidScan(_, _, _)
CentroidScan(lines, k, best) ==
  IF k > Len(EndpointChoices) THEN best
  ELSE CentroidScan(lines, k + 1,
         The({ IF ScoreGreater(c.score, best.bestScore)
               THEN [bestScore |-> c.score, bestCentroid |-> Some(c.point)]
               ELSE best :
               c \in { CentroidOf(Endpoints(lines[1])[EndpointChoices[k][1]],
                                  Endpoints(lines[2])[EndpointChoices[k][2]],
                                  Endpoints(lines[3])[EndpointChoices[k][3]]) } }))

\* an estimator that gives up on a centerline of a single point
findEndpointCentroidOfSegments(lines) ==
  IF Len(lines[1]) < 2 \/ Len(lines[2]) < 2 \/ Len(lines[3]) < 2 THEN Null
  ELSE The({ IF found.bestCentroid = Null THEN Null
             ELSE Some([point |-> found.bestCentroid[1], score |-> found.bestScore]) :
             found \in { CentroidScan(lines, 1, [bestScore |-> << 0, 1 >>,
                                                 bestCentroid |-> Null]) } })

findEndpointCentroid(lines) ==
  The({ IF found.bestCentroid = Null THEN Null
        ELSE Some([point |-> found.bestCentroid[1], score |-> found.bestScore]) :
        found \in { CentroidScan(lines, 1, [bestScore |-> << 0, 1 >>,
                                            bestCentroid |-> Null]) } })

\* the point of the centerline farthest from the bifurcation point; an
\* equally far later point does not replace an earlier one
RECURSIVE FurthestPoint(_, _, _, _)
FurthestPoint(bifurcationPoint, centerline, k, furthest) ==
  IF k > Len(centerline) THEN furthest
  ELSE FurthestPoint(bifurcationPoint, centerline, k + 1,
         IF distance(centerline[k], bifurcationPoint) > distance(furthest, bifurcationPoint)
         THEN centerline[k] ELSE furthest)

\* a unit direction held in 1 / Scale, or Null
findDirectionFromBifurcation(bifurcationPoint, centerline) ==
  IF Len(centerline) < 2 THEN Null
  ELSE The({ The({ IF length = 0 THEN Null
                   ELSE Some(Point(RoundDiv((targetPoint.x - bifurcationPoint.x) * Scale, length),
                                   RoundDiv((targetPoint.y - bifurcationPoint.y) * Scale, length))) :
                   length \in { distance(targetPoint, bifurcationPoint) } }) :
             targetPoint \in { FurthestPoint(bifurcationPoint, centerline, 2, centerline[1]) } })

\* generateAdjustedSegments: segment length and step, in pixels
segmentLength == 25
stepSize == 2

\* the segment without its first point: only the stepped points
generateSegmentFromFirstStep(bifurcationPoint, centerline) ==
  IF Len(centerline) < 2 THEN << bifurcationPoint >>
  ELSE The({ IF direction = Null THEN << bifurcationPoint >>
             ELSE [i \in 1..(segmentLength \div stepSize) |->
                    Point(bifurcationPoint.x + RoundDiv(direction[1].x * stepSize * i * Px, Scale),
                          bifurcationPoint.y + RoundDiv(direction[1].y * stepSize * i * Px, Scale))] :
             direction \in { findDirectionFromBifurcation(bifurcationPoint, centerline) } })

generateSegmentFromBifurcation(bifurcationPoint, centerline) ==
  IF Len(centerline) < 2 THEN << bifurcationPoint >>
  ELSE The({ IF direction = Null THEN << bifurcationPoint >>
             ELSE << bifurcationPoint >> \o
                  [i \in 1..(segmentLength \div stepSize) |->
                    Point(bifurcationPoint.x + RoundDiv(direction[1].x * stepSize * i * Px, Scale),
                          bifurcationPoint.y + RoundDiv(direction[1].y * stepSize * i * Px, Scale))] :
             direction \in { findDirectionFromBifurcation(bifurcationPoint, centerline) } })

generateAdjustedSegments(bifurcationPoint, lines) ==
  [main |-> generateSegmentFromBifurcation(bifurcationPoint, lines[1]),
   branch1 |-> generateSegmentFromBifurcation(bifurcationPoint, lines[2]),
   branch2 |-> generateSegmentFromBifurcation(bifurcationPoint, lines[3])]

\* a found candidate with its method, as a sequence of zero or one
Tagged(found, method) ==
  IF found = Null THEN << >>
  ELSE << [point |-> found[1].point, score |-> found[1].score, method |-> method] >>

\* the candidates in the order they are pushed
Candidates(lines) ==
  Tagged(findClosestApproachPoint(lines), "closest_approach")
  \o Tagged(findVesselIntersection(lines), "intersection")
  \o Tagged(findEndpointCentroid(lines), "centroid")

\* the reduce with a later candidate replacing the best one on an equal score
RECURSIVE ReduceBestLaterWins(_, _, _)
ReduceBestLaterWins(candidates, k, best) ==
  IF k > Len(candidates) THEN best
  ELSE ReduceBestLaterWins(candidates, k + 1,
         IF ~ScoreGreater(best.score, candidates[k].score) THEN candidates[k] ELSE best)

\* candidates.reduce((best, current) => current.score > best.score ? current : best)
RECURSIVE ReduceBest(_, _, _)
ReduceBest(candidates, k, best) ==
  IF k > Len(candidates) THEN best
  ELSE ReduceBest(candidates, k + 1,
         IF ScoreGreater(candidates[k].score, best.score) THEN candidates[k] ELSE best)

detectBifurcationPoint(lines) ==
  IF Len(lines[1]) = 0 \/ Len(lines[2]) = 0 \/ Len(lines[3]) = 0
  THEN Err("All vessel centerlines must have points")
  ELSE The({ IF Len(candidates) = 0 THEN Err("Could not detect bifurcation point")
             ELSE The({ Ok([bifurcationPoint |-> bestCandidate.point,
                            method |-> bestCandidate.method,
                            confidence |-> bestCandidate.score,
                            adjustedSegments |->
                              generateAdjustedSegments(bestCandidate.point, lines)]) :
                        bestCandidate \in { ReduceBest(candidates, 2, candidates[1]) } }) :
             candidates \in { Candidates(lines) } })

-----------------------------------------------------------------------------
(* Specification of the detection: three centerlines around a common point *)
(* are drawn and detectBifurcationPoint is called on them.                 *)

\* distance in pixels from the common point to the far ends
Reach == 8

\* a centerline given in pixels
Line(points) == [k \in 1..Len(points) |-> Point(points[k][1] * Px, points[k][2] * Px)]

\* a main vessel and a branch that cross at (20, 20) at slopes 3/4 and
\* -3/4, and a branch that starts 10 pixels beside the crossing, 6 pixels
\* from either of them
CrossingMain == Line(<< << 4, 8 >>, << 20, 20 >>, << 36, 32 >> >>)
CrossingBranch == Line(<< << 4, 32 >>, << 20, 20 >>, << 36, 8 >> >>)
BesideCrossing == Line(<< << 30, 20 >>, << 30, 40 >> >>)

\* main vessels: from the common point upwards, towards it, short of it, a
\* single point, none, and one running through the common point
MainLines ==
  { Line(<< << Reach, Reach >>, << Reach, 0 >> >>),
    Line(<< << Reach, 0 >>, << Reach, 5 * Reach >> >>),
    Line(<< << Reach, 0 >>, << Reach, Reach >> >>),
    Line(<< << Reach, Reach - 2 >>, << Reach, 0 >> >>),
    Line(<< << Reach, Reach >>, << Reach, Reach \div 2 >>, << Reach, 0 >> >>),
    Line(<< << Reach, Reach >> >>),
    << >>,
    CrossingMain }

\* the last branch of each set runs through the common point and bends
\* after it
Branch1Lines ==
  { Line(<< << Reach, Reach >>, << 0, 2 * Reach >> >>),
    Line(<< << 0, Reach >>, << 2 * Reach, Reach >>, << 2 * Reach, 5 * Reach >> >>),
    Line(<< << Reach - 1, Reach + 1 >>, << 0, 2 * Reach >> >>),
    Line(<< << 0, 2 * Reach >>, << Reach, Reach >> >>),
    Line(<< << Reach, Reach >>, << Reach, 2 * Reach >> >>),
    Line(<< << Reach, Reach >> >>),
    BesideCrossing }

Branch2Lines ==
  { Line(<< << Reach, Reach >>, << 2 * Reach, 2 * Reach >> >>),
    Line(<< << Reach \div 2, Reach \div 2 >>, << Reach + Reach \div 2, Reach + Reach \div 2 >>,
            << 5 * Reach, Reach + Reach \div 2 >> >>),
    Line(<< << Reach + 1, Reach + 1 >>, << 2 * Reach, 2 * Reach >> >>),
    Line(<< << 2 * Reach, 2 * Reach >>, << Reach, Reach >> >>),
    Line(<< << Reach, Reach >>, << Reach, Reach >> >>),
    Line(<< << Reach + 2, Reach >>, << 2 * Reach, Reach + 3 >> >>),
    CrossingBranch }

BifStart ==
  /\ centerlines \in MainLines \X Branch1Lines \X Branch2Lines
  /\ detection = None

BifIdle ==
  /\ centerlines = << << >>, << >>, << >> >>
  /\ detection = None

DetectBifurcation ==
  /\ detection = None
  /\ detection' = Some(detectBifurcationPoint(centerlines))
  /\ UNCHANGED <<centerlines, OutsideBif>>

BifNext == DetectBifurcation

-----------------------------------------------------------------------------
(* The angle optimizers. Here an angle is held in thousandths of a degree, *)
(* a vessel component in thousandths, a sine, a cosine and a dot product   *)
(* in millionths, and a score s as Num(n) with n the integer nearest to    *)
(* s * 1000000; a score can also be NaN, and the best score starts at      *)
(* Inf(-1).                                                                *)

\* Units of the optimizers' fixed-point numbers; not program constants.
Milli == 10 * 100
Fine == Milli * Milli

\* Math.sin of the whole degrees 1..90, times Fine
SinFineTable ==
  << 17452, 34899, 52336, 69756, 87156, 104528, 121869, 139173, 156434,
     173648, 190809, 207912, 224951, 241922, 258819, 275637, 292372, 309017,
     325568, 342020, 358368, 374607, 390731, 406737, 422618, 438371, 453990,
     469472, 484810, 500000, 515038, 529919, 544639, 559193, 573576, 587785,
     601815, 615661, 629320, 642788, 656059, 669131, 681998, 694658, 707107,
     719340, 731354, 743145, 754710, 766044, 777146, 788011, 798636, 809017,
     819152, 829038, 838671, 848048, 857167, 866025, 874620, 882948, 891007,
     898794, 906308, 913545, 920505, 927184, 933580, 939693, 945519, 951057,
     956305, 961262, 965926, 970296, 974370, 978148, 981627, 984808, 987688,
     990268, 992546, 994522, 996195, 997564, 998630, 999391, 999848, 1000000 >>

\* Math.sin of a whole number of degrees
SinWhole(d) ==
  LET e == ((d + 180) % 360) - 180
      a == IF Abs(e) > 90 THEN 180 - Abs(e) ELSE Abs(e)
  IN IF a = 0 THEN 0 ELSE Sgn(e) * SinFineTable[a]

\* product of two numbers held in millionths
MulFine(a, b) ==
  Sgn(a) * Sgn(b) * (((Abs(a) \div Milli) * Abs(b)
                       + ((Abs(a) % Milli) * Abs(b)) \div Milli + 500) \div Milli)

\* quotient a / b of two numbers held in the same unit, b > 0, in millionths
DivFine(a, b) ==
  LET k == b \div 2000000 + 1
      n == Abs(a) \div k
      d == b \div k
      r1 == (n % d) * Milli
      r2 == (r1 % d) * Milli
  IN Sgn(a) * ((n \div d) * Fine + (r1 \div d) * Milli + (r2 + d \div 2) \div d)

\* Math.sqrt of n millionths, in millionths
SqrtFine(n) ==
  LET r == Isqrt(n)
  IN IF r = 0 THEN 0 ELSE r * Milli + RoundDiv((n - r * r) * 500, r)

\* Math.sin(m * Math.PI / 180) for an angle of m thousandths of a degree:
\* the nearest whole degree w and the rest r, sin(w + r) by angle addition
SinMilli(m) ==
  LET w == RoundDiv(m, Milli)
      r == m - w * Milli
  IN MulFine(SinWhole(w), Fine - RoundDiv(r * r * 1523, 10000 * Milli))
     + MulFine(SinWhole(90 - w), RoundDiv(r * 17453, Milli))

CosMilli(m) == SinMilli(90 * Milli - m)

\* the viewing direction of an angle pair <<raoLao, cranialCaudal>>
viewingDirection(pair) ==
  << - MulFine(SinMilli(pair[1]), CosMilli(pair[2])),
     MulFine(CosMilli(pair[1]), CosMilli(pair[2])),
     SinMilli(pair[2]) >>

\* a vessel component times a component of the viewing direction
MulMilli(v, d) ==
  Sgn(v) * Sgn(d) * (Abs(v) * (Abs(d) \div Milli)
                      + (Abs(v) * (Abs(d) % Milli) + 500) \div Milli)

vesselLength(vesselDir) ==
  SqrtFine(vesselDir[1] * vesselDir[1] + vesselDir[2] * vesselDir[2]
           + vesselDir[3] * vesselDir[3])

viewLength(d) ==
  SqrtFine(MulFine(d[1], d[1]) + MulFine(d[2], d[2]) + MulFine(d[3], d[3]))

normalizedVessel(vesselDir) ==
  The({ [i \in 1..3 |-> DivFine(vesselDir[i] * Milli, len)] :
        len \in { vesselLength(vesselDir) } })

normalizedView(d) ==
  The({ [i \in 1..3 |-> DivFine(d[i], len)] : len \in { viewLength(d) } })

DotFine(a, b) == MulFine(a[1], b[1]) + MulFine(a[2], b[2]) + MulFine(a[3], b[3])

\* Math.sqrt(1 - dot * dot) for |dot| <= 1, as a score
projectedLengthFactor(dot) == SqrtFine(Fine - MulFine(dot, dot))

\* score * weight, the weight in tenths
Weighted(score, weight) ==
  IF IsNaN(score) THEN NaN ELSE Num((score[2] * weight) \div 10)

AddScore(a, b) == IF IsNaN(a) \/ IsNaN(b) THEN NaN ELSE Num(a[2] + b[2])

\* totalScore after the first i terms
RECURSIVE SumScores(_, _)
SumScores(terms, i) ==
  IF i = 0 THEN Num(0) ELSE AddScore(SumScores(terms, i - 1), terms[i])

\* a >= b + tolerance: an equal score counts as an improvement
ReachesOrExceeds(a, b, tolerance) ==
  /\ IsFinite(a)
  /\ \/ b = Inf(-1)
     \/ IsFinite(b) /\ a[2] >= b[2] + tolerance

\* a > b + tolerance in JavaScript: false when either side is NaN
Exceeds(a, b, tolerance) ==
  /\ IsFinite(a)
  /\ \/ b = Inf(-1)
     \/ IsFinite(b) /\ a[2] > b[2] + tolerance

Clamp(x, lo, hi) == Max2(lo, Min2(hi, x))

\* mathValidation.js: the score of one vessel against a viewing direction
calculateSingleVesselScore(vesselDirection, d) ==
  IF vesselLength(vesselDirection) = 0 \/ viewLength(d) = 0 THEN Num(0)
  ELSE The({ IF Abs(dotProduct) > Fine THEN NaN
             ELSE Num(projectedLengthFactor(dotProduct)) :
             dotProduct \in { DotFine(normalizedVessel(vesselDirection),
                                      normalizedView(d)) } })

\* mathValidation.js: the body of the grid loop of findOptimalAngles
totalScore(vesselDirs, pair) ==
  The({ SumScores([index \in 1..Len(vesselDirs) |->
                     Weighted(calculateSingleVesselScore(vesselDirs[index], d),
                              IF index = 1 THEN 15 ELSE 10)],
                  Len(vesselDirs)) :
        d \in { viewingDirection(pair) } })

\* vesselTracking: one term of calculateForeshorteningScore against the
\* normalized view n
ForeshorteningTerm(vesselDir, n, index) ==
  IF vesselLength(vesselDir) = 0 THEN Num(0)
  ELSE The({ Weighted(Num(projectedLengthFactor(Clamp(dotProduct, - Fine, Fine))),
                      IF index = 1 THEN 15 ELSE 10) :
             dotProduct \in { DotFine(normalizedVessel(vesselDir), n) } })

calculateForeshorteningScore(vesselDirs, pair) ==
  The({ IF viewLength(d) = 0 THEN Num(0)
        ELSE The({ SumScores([index \in 1..Len(vesselDirs) |->
                                ForeshorteningTerm(vesselDirs[index], n, index)],
                             Len(vesselDirs)) :
                   n \in { normalizedView(d) } }) :
        d \in { viewingDirection(pair) } })

\* correctedMath: one term of calculateViewingScore
ViewingTerm(vesselDir, d) ==
  The({ IF foreshorteningFactor > Fine THEN NaN
        ELSE Num(projectedLengthFactor(foreshorteningFactor)) :
        foreshorteningFactor \in { Abs(MulMilli(vesselDir[1], d[1])
                                       + MulMilli(vesselDir[2], d[2])
                                       + MulMilli(vesselDir[3], d[3])) } })

weights == << 12, 10, 10 >>

calculateViewingScore(vesselDirs, pair) ==
  The({ SumScores([index \in 1..Len(vesselDirs) |->
                     IF index > Len(weights) THEN NaN
                     ELSE Weighted(ViewingTerm(vesselDirs[index], d), weights[index])],
                  Len(vesselDirs)) :
        d \in { viewingDirection(pair) } })

Optimizers == { "findOptimalAngles", "vesselTracking", "correctedMath" }

\* the objective each optimizer evaluates
Objective(o, vesselDirs, pair) ==
  CASE o = "findOptimalAngles" -> totalScore(vesselDirs, pair)
    [] o = "vesselTracking" -> calculateForeshorteningScore(vesselDirs, pair)
    [] o = "correctedMath" -> calculateViewingScore(vesselDirs, pair)

\* the increment of both grid loops, in degrees
GridIncrement(o) ==
  CASE o = "findOptimalAngles" -> 5
    [] o = "vesselTracking" -> 2
    [] o = "correctedMath" -> 1

RequiredMessage(o) ==
  IF o = "vesselTracking"
  THEN "Exactly 3 vessel directions required (main + 2 branches)"
  ELSE "Exactly 3 vessel directions required"

HillStep == 500
HillIterations == 20
HillTolerance == 10000
GradStep == 100
GradIterations == 50
GradTolerance == 1000

maxIterations(o) == IF o = "vesselTracking" THEN HillIterations ELSE GradIterations

\* the pair as it is, without the limits
UnclampedPair(pair) == pair

ClampPair(pair) ==
  << Clamp(pair[1], - 90 * Milli, 90 * Milli), Clamp(pair[2], - 45 * Milli, 45 * Milli) >>

directions4 ==
  << << HillStep, 0 >>, << - HillStep, 0 >>, << 0, HillStep >>, << 0, - HillStep >> >>

\* the first of the tested pairs whose score exceeds the current one
FirstImproving(tests, currentScore, tolerance) ==
  LET better == { i \in DOMAIN tests : Exceeds(tests[i][2], currentScore, tolerance) }
  IN IF better = {} THEN None
     ELSE Some(tests[CHOOSE i \in better : \A j \in better : i <= j])

\* vesselTracking: one iteration of the loop of refineOptimalAngles; the
\* accepted << angles, score >> or None when nothing improved
refineOptimalAnglesIteration(vesselDirs, currentAngles, currentScore) ==
  The({ FirstImproving(tests, currentScore, HillTolerance) :
        tests \in { [i \in 1..4 |->
                      The({ << t, calculateForeshorteningScore(vesselDirs, t) >> :
                            t \in { ClampPair(<< currentAngles[1] + directions4[i][1],
                                                 currentAngles[2] + directions4[i][2] >>) } })] } })

\* the four scores of the central differences
GradientProbes(vesselDirs, currentAngles) ==
  << calculateViewingScore(vesselDirs, << currentAngles[1] + GradStep, currentAngles[2] >>),
     calculateViewingScore(vesselDirs, << currentAngles[1] - GradStep, currentAngles[2] >>),
     calculateViewingScore(vesselDirs, << currentAngles[1], currentAngles[2] + GradStep >>),
     calculateViewingScore(vesselDirs, << currentAngles[1], currentAngles[2] - GradStep >>) >>

\* stepSize * gradient, in thousandths of a degree
GradientMove(plus, minus) == RoundDiv(plus[2] - minus[2], 2000)

\* correctedMath: one iteration of the loop of refineAngles; a NaN gradient
\* gives NaN angles and a NaN score, which improves nothing
refineAnglesIteration(vesselDirs, currentAngles, currentScore) ==
  The({ IF \E i \in 1..4 : IsNaN(probes[i]) THEN None
        ELSE FirstImproving(
               << The({ << t, calculateViewingScore(vesselDirs, t) >> :
                        t \in { ClampPair(<< currentAngles[1] + GradientMove(probes[1], probes[2]),
                                             currentAngles[2] + GradientMove(probes[3], probes[4]) >>) } }) >>,
               currentScore, GradTolerance) :
        probes \in { GradientProbes(vesselDirs, currentAngles) } })

RefineIteration(o, vesselDirs, currentAngles, currentScore) ==
  IF o = "vesselTracking"
  THEN refineOptimalAnglesIteration(vesselDirs, currentAngles, currentScore)
  ELSE refineAnglesIteration(vesselDirs, currentAngles, currentScore)

\* Math.round(x * 10) of an angle x, so the returned angle in tenths of a degree
RoundTenths(m) == (m + 50) \div 100

-----------------------------------------------------------------------------
(* Specification of the optimizers: an optimizer is called on a set of     *)
(* vessel vessel3DDirections; its grid loop visits one angle pair per step, then   *)
(* its refinement loop runs one iteration per step, then it returns.       *)

\* the example of three vessels in the plane z = 0
PlaneVessels == << << 0, 1000, 0 >>, << 707, 707, 0 >>, << -707, 707, 0 >> >>
\* three vessels along the axes
AxisVessels == << << 0, 0, 1000 >>, << 1000, 0, 0 >>, << 0, 1000, 0 >> >>
\* a main vessel of length 40 tilted 0.43 degrees off the z axis
TiltedVessels == << << 0, -300, 40000 >>, << 1000, 0, 0 >>, << 1000, 0, 0 >> >>
\* a main vessel of length 0
ZeroVessels == << << 0, 0, 0 >>, << 1000, 0, 0 >>, << 0, 0, 1000 >> >>
TwoVessels == << << 0, 1000, 0 >>, << 1000, 0, 0 >> >>
\* vessels whose gradient at cranialCaudal = 45 points past the range
BoundaryVessels == << << -4900, -1000, -1000 >>, << -900, 1900, -600 >>, << 1000, 0, 0 >> >>
\* three vessels of length 2 along the axes
LongAxisVessels == << << 2000, 0, 0 >>, << 0, 2000, 0 >>, << 0, 0, 2000 >> >>

\* no vessel, and four vessels
NoVessels == << >>
FourVessels == << << 0, 1000, 0 >>, << 707, 707, 0 >>, << -707, 707, 0 >>, << 1000, 0, 0 >> >>

DirectionSets ==
  { PlaneVessels, AxisVessels, TiltedVessels, ZeroVessels, TwoVessels, BoundaryVessels,
    LongAxisVessels, NoVessels, FourVessels }

IdleSearch ==
  [ phase |-> "idle", raoLao |-> 0, cranialCaudal |-> 0,
    bestAngles |-> << 0, 0 >>, bestScore |-> Inf(-1),
    currentAngles |-> << 0, 0 >>, currentScore |-> Num(0), iter |-> 0 ]

OptIdle ==
  /\ optimizer = "none"
  /\ vessel3DDirections = << >>
  /\ search = IdleSearch
  /\ optimum = None
  /\ earlier = None

\* the entry of a call without the length check
EnterWithoutLengthCheck(o, d) ==
  /\ search' = [IdleSearch EXCEPT !.phase = "grid", !.raoLao = -90, !.cranialCaudal = -45]
  /\ optimum' = None

\* the entry of a call: the length check, then the initial values of the
\* grid loop
Enter(o, d) ==
  IF o # "findOptimalAngles" /\ Len(d) # 3
  THEN /\ search' = [IdleSearch EXCEPT !.phase = "thrown"]
       /\ optimum' = Some(Err(RequiredMessage(o)))
  ELSE /\ search' = [IdleSearch EXCEPT !.phase = "grid", !.raoLao = -90,
                                       !.cranialCaudal = -45]
       /\ optimum' = None

\* the first call of an optimizer
CalculateOptimalViewingAngles ==
  /\ search.phase = "idle"
  /\ \E o \in Optimizers, d \in DirectionSets :
       /\ optimizer' = o
       /\ vessel3DDirections' = d
       /\ Enter(o, d)
  /\ UNCHANGED << earlier, OutsideOpt >>

\* the same optimizer is called once more with the same vessel directions;
\* its local variables start afresh
CallAgain ==
  /\ search.phase \in {"returned", "thrown"}
  /\ earlier = None
  /\ earlier' = optimum
  /\ Enter(optimizer, vessel3DDirections)
  /\ UNCHANGED << optimizer, vessel3DDirections, OutsideOpt >>

\* one pass through the body of the inner grid loop
GridPoint ==
  /\ search.phase = "grid"
  /\ search.raoLao <= 90
  /\ \E score \in { Objective(optimizer, vessel3DDirections,
                              << search.raoLao * Milli, search.cranialCaudal * Milli >>) } :
       \E better \in { Exceeds(score, search.bestScore, 0) } :
         search' = [search EXCEPT
           !.bestScore = IF better THEN score ELSE @,
           !.bestAngles = IF better THEN << search.raoLao, search.cranialCaudal >> ELSE @,
           !.cranialCaudal = IF @ + GridIncrement(optimizer) <= 45
                             THEN @ + GridIncrement(optimizer) ELSE -45,
           !.raoLao = IF search.cranialCaudal + GridIncrement(optimizer) <= 45
                      THEN @ ELSE @ + GridIncrement(optimizer)]
  /\ UNCHANGED << optimizer, vessel3DDirections, optimum, earlier, OutsideOpt >>

\* the grid is done: refinement starts from the best grid point
BeginRefinement ==
  /\ search.phase = "grid"
  /\ search.raoLao > 90
  /\ optimizer # "findOptimalAngles"
  /\ \E start \in { << search.bestAngles[1] * Milli, search.bestAngles[2] * Milli >> } :
       search' = [search EXCEPT
         !.phase = "refine",
         !.currentAngles = start,
         !.currentScore = Objective(optimizer, vessel3DDirections, start),
         !.iter = 0]
  /\ UNCHANGED << optimizer, vessel3DDirections, optimum, earlier, OutsideOpt >>

\* an iteration that goes on to the next one without an improvement
RefineWithoutBreak ==
  /\ search.phase = "refine"
  /\ search.iter < maxIterations(optimizer)
  /\ \E accepted \in { RefineIteration(optimizer, vessel3DDirections, search.currentAngles,
                                       search.currentScore) } :
       search' = IF accepted = None
                 THEN [search EXCEPT !.iter = @ + 1]
                 ELSE [search EXCEPT !.currentAngles = accepted[1][1],
                                     !.currentScore = accepted[1][2],
                                     !.iter = @ + 1]
  /\ UNCHANGED << optimizer, vessel3DDirections, optimum, earlier, OutsideOpt >>

\* one iteration of the refinement loop
Refine ==
  /\ search.phase = "refine"
  /\ search.iter < maxIterations(optimizer)
  /\ \E accepted \in { RefineIteration(optimizer, vessel3DDirections, search.currentAngles,
                                       search.currentScore) } :
       search' = IF accepted = None
                 THEN [search EXCEPT !.phase = "refined"]
                 ELSE [search EXCEPT !.currentAngles = accepted[1][1],
                                     !.currentScore = accepted[1][2],
                                     !.iter = @ + 1]
  /\ UNCHANGED << optimizer, vessel3DDirections, optimum, earlier, OutsideOpt >>

\* the return statement; findOptimalAngles returns the best grid point
ReturnOptimum ==
  /\ \/ search.phase = "refined"
     \/ search.phase = "refine" /\ search.iter >= maxIterations(optimizer)
     \/ search.phase = "grid" /\ search.raoLao > 90 /\ optimizer = "findOptimalAngles"
  /\ optimum' = Some(Ok(
       IF optimizer = "findOptimalAngles"
       THEN [ raoLao |-> search.bestAngles[1] * 10,
              cranialCaudal |-> search.bestAngles[2] * 10,
              score |-> search.bestScore ]
       ELSE [ raoLao |-> RoundTenths(search.currentAngles[1]),
              cranialCaudal |-> RoundTenths(search.currentAngles[2]),
              score |-> search.bestScore ]))
  /\ search' = [search EXCEPT !.phase = "returned"]
  /\ UNCHANGED << optimizer, vessel3DDirections, earlier, OutsideOpt >>

OptNext ==
  \/ CalculateOptimalViewingAngles
  \/ GridPoint
  \/ BeginRefinement
  \/ Refine
  \/ ReturnOptimum
  \/ CallAgain

-----------------------------------------------------------------------------
(* Specification of the single-vessel score: a vessel direction and a      *)
(* viewing direction are drawn and calculateSingleVesselScore is called on *)
(* them, as testForeshorteningCalculation does.                            *)

\* vessel directions, in thousandths
ScoredVessels ==
  { << 1000, 0, 0 >>, << 0, 1000, 0 >>, << 707, 707, 0 >>, << 0, 0, 1000 >>,
    << 4000, 4000, 4000 >>, << 2000, 0, 0 >>, << 0, 0, 0 >>, << 0, 1000, 1000 >>,
    << -1000, 0, 0 >>, << 1000, 1000, 0 >>, << 0, 3000, 0 >> }

\* a viewing direction of whole components
View(x, y, z) == << x * Fine, y * Fine, z * Fine >>

ScoredViews ==
  { View(1, 0, 0), View(0, 1, 0), View(0, 0, 1), View(1, 1, 1), View(1, 1, 0),
    View(-1, 0, 0), View(0, 0, 0) }

ScoreStart ==
  /\ scoredVessel \in ScoredVessels
  /\ scoredView \in ScoredViews
  /\ singleScore = None

ScoreIdle ==
  /\ scoredVessel = << 0, 0, 0 >>
  /\ scoredView = << 0, 0, 0 >>
  /\ singleScore = None

CalculateSingleVesselScore ==
  /\ singleScore = None
  /\ singleScore' = Some(calculateSingleVesselScore(scoredVessel, scoredView))
  /\ UNCHANGED << scoredVessel, scoredView, OutsideScore >>

ScoreNext == CalculateSingleVesselScore

-----------------------------------------------------------------------------
(* Vessel tracking. Positions are held in hundredths of a pixel, the gray  *)
(* levels of the image as whole numbers with red = green = blue, and       *)
(* interpolated intensities in hundredths of a gray level.                 *)

\* one pixel
Sub == 10 * 10

\* a centerline point; the intensity is Null on a point that has none
TracePoint(x, y, intensity) == [x |-> x, y |-> y, intensity |-> intensity]

\* 255 - (0.299 r + 0.587 g + 0.114 b) for every pixel
createIntensityMap(gray, w, h) ==
  [p \in 1..(w * h) |-> 255 - RoundDiv((299 + 587 + 114) * gray[p], Milli)]

\* Math.exp(-d2 / 25) in thousandths for the squared distances d2 = 0..25
ExpTable ==
  << 1000, 961, 923, 887, 852, 819, 787, 756, 726, 698, 670, 644, 619, 595,
     571, 549, 527, 507, 487, 468, 449, 432, 415, 399, 383, 368 >>

\* the search radius of findLocalVesselCenter
radius == 5

\* the weight of one sample: 0 for a sample that is skipped
SampleWeight(intensityMap, w, h, sampleX, sampleY, d2) ==
  IF d2 > radius * radius \/ sampleX < 0 \/ sampleX >= w \/ sampleY < 0 \/ sampleY >= h
  THEN 0
  ELSE intensityMap[sampleY * w + sampleX + 1] * ExpTable[d2 + 1]

\* Math.round of a position that is not negative, in whole pixels
RoundPixel(x) == (x + Sub \div 2) \div Sub

\* a / b in hundredths, for a >= 0 and b > 0
Quotient(a, b) == (a \div b) * Sub + RoundDiv((a % b) * Sub, b)

\* the weights of the neighbourhood of (centerX, centerY), row by row
NeighbourWeights(intensityMap, w, h, centerX, centerY) ==
  [r \in 1..(2 * radius + 1) |-> [c \in 1..(2 * radius + 1) |->
     SampleWeight(intensityMap, w, h, centerX + c - radius - 1, centerY + r - radius - 1,
                  (c - radius - 1) * (c - radius - 1) + (r - radius - 1) * (r - radius - 1))]]

\* the intensity-weighted centroid of the neighbourhood, or the position
\* itself when all weights are 0
findLocalVesselCenter(intensityMap, w, h, x, y) ==
  The({ The({ IF totalWeight = 0 THEN Point(x, y)
              ELSE Point(
                Quotient(SumTo([r \in 1..(2 * radius + 1) |->
                           SumTo([c \in 1..(2 * radius + 1) |->
                                    (RoundPixel(x) + c - radius - 1) * sampleWeights[r][c]],
                                 2 * radius + 1)], 2 * radius + 1), totalWeight),
                Quotient(SumTo([r \in 1..(2 * radius + 1) |->
                           (RoundPixel(y) + r - radius - 1) * SumTo(sampleWeights[r], 2 * radius + 1)],
                           2 * radius + 1), totalWeight)) :
              totalWeight \in { SumTo([r \in 1..(2 * radius + 1) |->
                                         SumTo(sampleWeights[r], 2 * radius + 1)], 2 * radius + 1) } }) :
        sampleWeights \in { NeighbourWeights(intensityMap, w, h, RoundPixel(x), RoundPixel(y)) } })

\* bilinear interpolation at a position inside the image
getInterpolatedIntensity(intensityMap, w, h, x, y) ==
  LET x1 == x \div Sub
      y1 == y \div Sub
      x2 == Min2(x1 + 1, w - 1)
      y2 == Min2(y1 + 1, h - 1)
      fx == x - x1 * Sub
      fy == y - y1 * Sub
      i1 == intensityMap[y1 * w + x1 + 1] * (Sub - fx) + intensityMap[y1 * w + x2 + 1] * fx
      i2 == intensityMap[y2 * w + x1 + 1] * (Sub - fx) + intensityMap[y2 * w + x2 + 1] * fx
  IN IF x1 < 0 \/ y1 < 0 \/ x2 >= w \/ y2 >= h THEN 0
     ELSE RoundDiv(i1 * (Sub - fy) + i2 * fy, Sub)

\* the moving average over a window of 3 points
smoothCenterline(pts) ==
  IF Len(pts) < 3 THEN pts
  ELSE [i \in 1..Len(pts) |->
         LET start == Max2(1, i - 1)
             end == Min2(Len(pts), i + 1)
             count == end - start + 1
         IN TracePoint(
              RoundDiv(SumTo([j \in 1..count |-> pts[start + j - 1].x], count), count),
              RoundDiv(SumTo([j \in 1..count |-> pts[start + j - 1].y], count), count),
              IF pts[i].intensity = Null THEN 0 ELSE pts[i].intensity[1])]

\* one coordinate of the interpolation target: start + delta * progress
TargetAt(start, delta, step, steps) == start + RoundDiv(delta * step, steps)

\* the cursor moved toward the end point and kept inside the image; Null
\* for the 0 / 0 of a segment of no steps
NextCursor(start, delta, step, steps, center, size) ==
  IF steps = 0 THEN Null
  ELSE Some(Clamp(RoundDiv(7 * TargetAt(start, delta, step, steps) + 3 * center, 10),
                  2 * Sub, (size - 3) * Sub))

-----------------------------------------------------------------------------
(* Specification of the tracking: an image, seed points and a segment      *)
(* length are drawn and extractVesselCenterline is called; the tracing     *)
(* loop runs one step per state.                                           *)

imageColumns == 12
imageRows == 10

\* the column of the dark vessel in the vessel image
VesselColumn == 5

\* a white image, and a white image with a dark vessel down one column
BlankImage ==
  [width |-> imageColumns, height |-> imageRows,
   gray |-> [p \in 1..(imageColumns * imageRows) |-> 255]]

VesselImage ==
  [width |-> imageColumns, height |-> imageRows,
   gray |-> [p \in 1..(imageColumns * imageRows) |->
              IF (p - 1) % imageColumns = VesselColumn THEN 0 ELSE 255]]

\* seed points the user may click, in pixels
SeedChoices ==
  { Point(3 * Sub, 3 * Sub), Point(8 * Sub, 3 * Sub), Point(5 * Sub, 8 * Sub),
    Point(1 * Sub, 5 * Sub) }

\* the most seed points of a call
MaxSeeds == 3

SeedSequences ==
  UNION { [1..n -> SeedChoices] : n \in 0..MaxSeeds }

\* segment lengths: one shorter than the seed distances, and the default
ShortSegment == 3
DefaultSegment == 50

IdleTracker ==
  [ phase |-> "idle", intensityMap |-> None, i |-> 0, steps |-> 0, step |-> 0,
    current |-> Null, segmentPoints |-> << >>, centerlinePoints |-> << >> ]

TrackStart ==
  /\ imageData \in { BlankImage, VesselImage }
  /\ seedPoints \in SeedSequences
  /\ maxLength \in { ShortSegment, DefaultSegment }
  /\ tracker = IdleTracker
  /\ tracedCenterline = None

TrackIdle ==
  /\ imageData = BlankImage
  /\ seedPoints = << >>
  /\ maxLength = DefaultSegment
  /\ tracker = IdleTracker
  /\ tracedCenterline = None

\* the call without its check of the seed points
ExtractWithoutSeedCheck ==
  /\ tracker.phase = "idle"
  /\ tracker' = [tracker EXCEPT !.phase = "entered"]
  /\ UNCHANGED << imageData, seedPoints, maxLength, tracedCenterline, OutsideTrack >>

\* the call and its check of the seed points
ExtractVesselCenterline ==
  /\ tracker.phase = "idle"
  /\ IF Len(seedPoints) < 2
     THEN /\ tracker' = [tracker EXCEPT !.phase = "thrown"]
          /\ tracedCenterline' = Some(Err("At least 2 seed points required"))
     ELSE /\ tracker' = [tracker EXCEPT !.phase = "entered"]
          /\ UNCHANGED tracedCenterline
  /\ UNCHANGED << imageData, seedPoints, maxLength, OutsideTrack >>

\* the image is read: width, height and data, and the intensity map is made
CreateIntensityMap ==
  /\ tracker.phase = "entered"
  /\ tracker' = [tracker EXCEPT
       !.phase = "segments",
       !.intensityMap = Some(createIntensityMap(imageData.gray, imageData.width,
                                                imageData.height)),
       !.i = 0]
  /\ UNCHANGED << imageData, seedPoints, maxLength, tracedCenterline, OutsideTrack >>

\* traceCenterlineBetweenPoints is entered for the seed points i and i + 1
BeginSegment ==
  /\ tracker.phase = "segments"
  /\ tracker.i < Len(seedPoints) - 1
  /\ \E startPoint \in { seedPoints[tracker.i + 1] }, endPoint \in { seedPoints[tracker.i + 2] } :
       \E totalDistance \in { distance(startPoint, endPoint) } :
         tracker' = IF totalDistance = 0
                    THEN [tracker EXCEPT
                           !.centerlinePoints = Append(@, TracePoint(startPoint.x, startPoint.y, Null)),
                           !.i = @ + 1]
                    ELSE [tracker EXCEPT
                           !.phase = "trace",
                           !.steps = Min2(totalDistance, maxLength * Sub) \div Sub,
                           !.step = 0,
                           !.current = Some(startPoint),
                           !.segmentPoints = << >>]
  /\ UNCHANGED << imageData, seedPoints, maxLength, tracedCenterline, OutsideTrack >>

\* one pass through the loop of traceCenterlineBetweenPoints
TraceStep ==
  /\ tracker.phase = "trace"
  /\ tracker.step <= tracker.steps
  /\ \E startPoint \in { seedPoints[tracker.i + 1] }, endPoint \in { seedPoints[tracker.i + 2] } :
       \E centerPoint \in { findLocalVesselCenter(tracker.intensityMap[1], imageData.width,
                                                  imageData.height, tracker.current[1].x,
                                                  tracker.current[1].y) } :
         \E nextX \in { NextCursor(startPoint.x, endPoint.x - startPoint.x, tracker.step,
                                   tracker.steps, centerPoint.x, imageData.width) },
            nextY \in { NextCursor(startPoint.y, endPoint.y - startPoint.y, tracker.step,
                                   tracker.steps, centerPoint.y, imageData.height) } :
           tracker' = [tracker EXCEPT
             !.segmentPoints = Append(@, TracePoint(centerPoint.x, centerPoint.y,
                                 Some(getInterpolatedIntensity(tracker.intensityMap[1],
                                        imageData.width, imageData.height,
                                        centerPoint.x, centerPoint.y)))),
             !.current = IF nextX = Null THEN Null ELSE Some(Point(nextX[1], nextY[1])),
             !.step = @ + 1]
  /\ UNCHANGED << imageData, seedPoints, maxLength, tracedCenterline, OutsideTrack >>

\* the traced segment is pushed onto the centerline
EndSegment ==
  /\ tracker.phase = "trace"
  /\ tracker.step > tracker.steps
  /\ tracker' = [tracker EXCEPT
       !.phase = "segments",
       !.centerlinePoints = @ \o tracker.segmentPoints,
       !.i = @ + 1]
  /\ UNCHANGED << imageData, seedPoints, maxLength, tracedCenterline, OutsideTrack >>

\* the return of the smoothed centerline
ReturnCenterline ==
  /\ tracker.phase = "segments"
  /\ tracker.i >= Len(seedPoints) - 1
  /\ tracedCenterline' = Some(Ok(smoothCenterline(tracker.centerlinePoints)))
  /\ tracker' = [tracker EXCEPT !.phase = "returned"]
  /\ UNCHANGED << imageData, seedPoints, maxLength, OutsideTrack >>

TrackNext ==
  \/ ExtractVesselCenterline
  \/ CreateIntensityMap
  \/ BeginSegment
  \/ TraceStep
  \/ EndSegment
  \/ ReturnCenterline

-----------------------------------------------------------------------------
(* Specification of the conversion: a segment and the projection angles of *)
(* its image are drawn and both conversions are applied to it.             *)

\* marked segments: those of the reconstruction, segments of one pixel,
\* segments across the image, and two points that coincide in a corner
MarkedSegments ==
  SegmentSet \cup
  { Seg(imageWidth \div 2, imageHeight \div 2, imageWidth \div 2 + 1, imageHeight \div 2),
    Seg(imageWidth \div 2, imageHeight \div 2, imageWidth \div 2, imageHeight \div 2 + 1),
    Seg(0, 0, imageWidth - 1, imageHeight - 1),
    Seg(imageWidth - SegmentReach, SegmentReach, SegmentReach, imageHeight - SegmentReach),
    Seg(0, 0, 0, 0) }

DirStart ==
  /\ markedSegment \in MarkedSegments
  /\ viewAngles \in RaoRange \X CranialRange
  /\ converted = None

DirIdle ==
  /\ markedSegment = Seg(0, 0, 0, 0)
  /\ viewAngles = << 0, 0 >>
  /\ converted = None

\* both conversions of the marked segment
ConvertSegment ==
  /\ converted = None
  /\ converted' = Some(
       [fromCoordinates |->
          imageCoordinatesTo3DDirection(
            markedSegment.start[1], markedSegment.start[2],
            markedSegment.end[1], markedSegment.end[2], imageWidth, imageHeight,
            projectionAnglesToRotationMatrix(viewAngles[1], viewAngles[2])),
        fromCenterline |->
          calculate3DVesselDirection(
            << Point(markedSegment.start[1], markedSegment.start[2]),
               Point(markedSegment.end[1], markedSegment.end[2]) >>,
            viewAngles[1], viewAngles[2], imageWidth, imageHeight)])
  /\ UNCHANGED << markedSegment, viewAngles, OutsideDir >>

DirNext == ConvertSegment

-----------------------------------------------------------------------------
(* The 3D view. Rotations are held in 1 / Scale, the translation column of *)
(* a projection matrix in hundredths of a cm, a triangulated point in      *)
(* whole units and a projected length in 1 / Scale.                        *)

\* hundredths
Centi == 10 * 10

\* Bifurcation3D.jsx: the distance of the source, in cm
sourceDistance3D == 100

\* [R | -R * (R * cameraPosition)] with R = R_cranial * R_rao
createAngiographicProjectionMatrix(raoLao, cranialCaudal) ==
  LET R == multiplyMatrices3x3(R_cranial(cranialCaudal), R_rao(raoLao))
      cameraPosition == << 0, 0, sourceDistance3D * Centi >>
      rotatedCamera == multiplyMatrixVector(R, cameraPosition)
      Rt == multiplyMatrixVector(R, [i \in 1..3 |-> -rotatedCamera[i]])
  IN [i \in 1..3 |-> << R[i][1], R[i][2], R[i][3], Rt[i] >>]

\* the rows x * P[2] - P[0] and y * P[2] - P[1] of the system of
\* triangulatePointDLT
SystemRows(x, y, P) ==
  << [j \in 1..4 |-> Mul(x, P[3][j]) - P[1][j]],
     [j \in 1..4 |-> Mul(y, P[3][j]) - P[2][j]] >>

\* the squared norm of column j as << whole, rest >> in units of 1 / Scale
\* and 1 / Scale^2; the last column is held in hundredths
ColumnNorm(A, j) ==
  The({ IF j = 4 THEN << sum, 0 >> ELSE << sum \div Scale, sum % Scale >> :
        sum \in { SumTo([i \in 1..Len(A) |-> A[i][j] * A[i][j]], Len(A)) } })

NormLess(a, b) == a[1] < b[1] \/ (a[1] = b[1] /\ a[2] < b[2])

\* the scan of the local solveLeastSquares for the column of least norm;
\* minNorm is Null while it is Infinity
RECURSIVE BestColumn(_, _, _, _)
BestColumn(A, j, minNorm, bestCol) ==
  IF j > 4 THEN bestCol
  ELSE The({ IF (minNorm = Null \/ NormLess(norm, minNorm[1])) /\ norm # << 0, 0 >>
             THEN BestColumn(A, j + 1, Some(norm), j)
             ELSE BestColumn(A, j + 1, minNorm, bestCol) :
             norm \in { ColumnNorm(A, j) } })

\* the local solveLeastSquares: [0, 0, 0, 1] with a 1 at the best column
solveLeastSquares3D(A) ==
  The({ [j \in 1..4 |-> IF j = 4 \/ j = bestCol THEN 1 ELSE 0] :
        bestCol \in { BestColumn(A, 1, Null, 1) } })

\* solution[3] is 1, so the point is never taken to be at infinity
triangulatePointDLT(x1, y1, x2, y2, P1, P2) ==
  The({ << homogeneous[1], homogeneous[2], homogeneous[3] >> :
        homogeneous \in { solveLeastSquares3D(SystemRows(x1, y1, P1)
                                           \o SystemRows(x2, y2, P2)) } })

\* image points are in tenths of a pixel
triangulate3DPoint(point1, point2, angles1, angles2) ==
  triangulatePointDLT(
    RoundDiv(point1.x * Scale, 400 * Px) - Scale,
    Scale - RoundDiv(point1.y * Scale, 300 * Px),
    RoundDiv(point2.x * Scale, 400 * Px) - Scale,
    Scale - RoundDiv(point2.y * Scale, 300 * Px),
    createAngiographicProjectionMatrix(angles1.raoLao, angles1.cranialCaudal),
    createAngiographicProjectionMatrix(angles2.raoLao, angles2.cranialCaudal))

reconstruct3DSegment(segment1, segment2, angles1, angles2) ==
  [i \in 1..Min2(Len(segment1), Len(segment2)) |->
     triangulate3DPoint(segment1[i], segment2[i], angles1, angles2)]

\* the names of the vessels in the order they are reconstructed
VesselNames == << "main", "branch1", "branch2" >>

HasAdjustedSegments(imageVesselData) ==
  /\ imageVesselData # Null
  /\ "adjustedSegments" \in DOMAIN imageVesselData[1]

\* a segment that is an array
IsSegment(adjustedSegments, vesselName) ==
  /\ vesselName \in DOMAIN adjustedSegments
  /\ adjustedSegments[vesselName] # Null

\* the vessels reconstructed, by name, or Null
reconstruct3DVessels(data) ==
  IF ~HasAdjustedSegments(data.image1VesselData)
     \/ ~HasAdjustedSegments(data.image2VesselData)
  THEN Null
  ELSE Some([vesselName \in
               { VesselNames[k] : k \in
                   { k \in 1..3 :
                       /\ IsSegment(data.image1VesselData[1].adjustedSegments, VesselNames[k])
                       /\ IsSegment(data.image2VesselData[1].adjustedSegments, VesselNames[k]) } }
             |-> reconstruct3DSegment(
                   data.image1VesselData[1].adjustedSegments[vesselName][1],
                   data.image2VesselData[1].adjustedSegments[vesselName][1],
                   data.image1VesselData[1].projectionAngles,
                   data.image2VesselData[1].projectionAngles)])

\* the projected length of the piece from p1 to p2 against the viewing
\* direction d
ProjectedPiece(p1, p2, d) ==
  LET segmentVector == << p2[1] - p1[1], p2[2] - p1[2], p2[3] - p1[3] >>
      squared == segmentVector[1] * segmentVector[1] + segmentVector[2] * segmentVector[2]
                 + segmentVector[3] * segmentVector[3]
      segmentLength3D == Isqrt(squared * Scale * Scale)
      dotProduct == RoundDiv((segmentVector[1] * d[1] + segmentVector[2] * d[2]
                              + segmentVector[3] * d[3]) * Scale, segmentLength3D)
  IN IF squared = 0 THEN Num(0)
     ELSE IF Abs(dotProduct) > Scale THEN NaN
     ELSE Num(Mul(segmentLength3D, Isqrt(Scale * Scale - dotProduct * dotProduct)))

calculateProjectedLength(vessel, raoLao, cranialCaudal) ==
  IF Len(vessel) < 2 THEN Num(0)
  ELSE The({ SumScores([i \in 1..(Len(vessel) - 1) |->
                          ProjectedPiece(vessel[i], vessel[i + 1], d)], Len(vessel) - 1) :
             d \in { calculateViewingDirection(raoLao, cranialCaudal) } })

\* the local calculateForeshorteningScore: the sum over the vessels of more
\* than one point
calculateForeshorteningScore3D(vessels3, raoLao, cranialCaudal) ==
  SumScores([k \in 1..3 |->
               IF VesselNames[k] \in DOMAIN vessels3 /\ Len(vessels3[VesselNames[k]]) > 1
               THEN calculateProjectedLength(vessels3[VesselNames[k]], raoLao, cranialCaudal)
               ELSE Num(0)], 3)

\* the hard-coded default
DefaultAngles == [raoLao |-> 30, cranialCaudal |-> 20, score |-> Num(0)]

\* the increment of the grid of the 3D view, in degrees
ViewGridStep == 5

\* the angle pairs of the grid in the order of the two loops
GridPairs3D ==
  [k \in 1..((180 \div ViewGridStep + 1) * (90 \div ViewGridStep + 1)) |->
     << -90 + ViewGridStep * ((k - 1) \div (90 \div ViewGridStep + 1)),
        -45 + ViewGridStep * ((k - 1) % (90 \div ViewGridStep + 1)) >>]

\* the grid search: a pair replaces the best one when its score is greater,
\* so the loops end on the first pair of the greatest score; a NaN score is
\* never greater
GridSearch3D(vessels3) ==
  The({ IF \A k \in DOMAIN scores : ~IsFinite(scores[k])
        THEN [raoLao |-> 0, cranialCaudal |-> 0, score |-> Inf(-1)]
        ELSE The({ [raoLao |-> GridPairs3D[k][1], cranialCaudal |-> GridPairs3D[k][2],
                    score |-> scores[k]] :
                   k \in { k \in DOMAIN scores :
                             /\ IsFinite(scores[k])
                             /\ \A j \in DOMAIN scores :
                                  IsFinite(scores[j])
                                    => \/ scores[j][2] < scores[k][2]
                                       \/ (scores[j][2] = scores[k][2] /\ j >= k) } }) :
        scores \in { [k \in DOMAIN GridPairs3D |->
                       calculateForeshorteningScore3D(vessels3, GridPairs3D[k][1],
                                                      GridPairs3D[k][2])] } })

\* the local calculateOptimalAngles
calculateOptimalAngles3D(reconstructed) ==
  IF reconstructed = Null THEN DefaultAngles
  ELSE IF DOMAIN reconstructed[1] = {} THEN DefaultAngles
  ELSE GridSearch3D(reconstructed[1])

-----------------------------------------------------------------------------
(* Specification of the 3D view: the data of the two images is drawn, as   *)
(* the vessel tracker hands it over, as the bifurcation detection shapes   *)
(* it, or missing, and the effect of Bifurcation3D runs on it.             *)

\* what VesselTracker hands to onVesselDataExtracted
TrackerData(imageAngles, optimal) ==
  [vessels |-> [main |-> [seedPoints |-> Line(<< << 3, 3 >>, << 8, 3 >> >>),
                          centerline |-> Line(<< << 3, 3 >>, << 8, 3 >> >>)]],
   vesselDirections |-> PlaneVessels,
   optimalAngles |-> optimal,
   projectionAngles |-> imageAngles,
   imageSize |-> [width |-> imageWidth, height |-> imageHeight]]

\* data with the adjusted segments of a detection
DetectedData(imageAngles, adjusted) ==
  [adjustedSegments |-> adjusted, projectionAngles |-> imageAngles]

TypedAngles ==
  { [raoLao |-> rao, cranialCaudal |-> cranial] : rao \in TypedRao, cranial \in TypedCranial }

\* adjusted segments: three segments, one segment missing, and none
AdjustedChoices ==
  { [main |-> Some(Line(<< << 400, 300 >>, << 400, 280 >>, << 400, 200 >> >>)),
     branch1 |-> Some(Line(<< << 400, 300 >>, << 380, 320 >>, << 300, 400 >> >>)),
     branch2 |-> Some(Line(<< << 400, 300 >>, << 420, 320 >>, << 500, 400 >> >>))],
    [main |-> Some(Line(<< << 100, 100 >>, << 400, 300 >> >>)),
     branch1 |-> Null,
     branch2 |-> Some(Line(<< << 400, 300 >>, << 700, 500 >> >>))],
    [main |-> Null, branch1 |-> Null, branch2 |-> Null] }

ImageVesselData ==
  { Null }
  \cup { Some(TrackerData(imageAngles, optimal)) :
           imageAngles \in TypedAngles,
           optimal \in { [raoLao |-> 0, cranialCaudal |-> 0, score |-> 3500],
                         [raoLao |-> -44, cranialCaudal |-> 12, score |-> 3100] } }
  \cup { Some(DetectedData(imageAngles, adjusted)) :
           imageAngles \in { [raoLao |-> 0, cranialCaudal |-> 0],
                        [raoLao |-> 30, cranialCaudal |-> 20] },
           adjusted \in AdjustedChoices }

ViewStart ==
  /\ vesselData \in [image1VesselData : ImageVesselData, image2VesselData : ImageVesselData]
  /\ vessels3D = None
  /\ optimalAngles = None

ViewIdle ==
  /\ vesselData = [image1VesselData |-> Null, image2VesselData |-> Null]
  /\ vessels3D = None
  /\ optimalAngles = None

\* the effect on vesselData
UpdateVessels3D ==
  /\ optimalAngles = None
  /\ IF vesselData.image1VesselData # Null /\ vesselData.image2VesselData # Null
     THEN \E reconstructed \in { reconstruct3DVessels(vesselData) } :
            /\ vessels3D' = Some(reconstructed)
            /\ optimalAngles' = Some(calculateOptimalAngles3D(reconstructed))
     ELSE /\ optimalAngles' = Some(DefaultAngles)
          /\ UNCHANGED vessels3D
  /\ UNCHANGED << vesselData, OutsideView >>

ViewNext == UpdateVessels3D

-----------------------------------------------------------------------------
(* The segmentation of a CT volume by region growing. Voxels are held by   *)
(* their whole coordinates, intensities in Hounsfield units, the spacing   *)
(* in whole millimetres.                                                   *)

Voxel(x, y, z) == [x |-> x, y |-> y, z |-> z]

\* the key `${x},${y},${z}` of a voxel in the set of visited voxels
voxelKey(p) == << p.x, p.y, p.z >>

IsNeighborOffset(d) == d # << 0, 0, 0 >>

\* the offsets of the three nested loops over dx, dy and dz, in their order
NeighborOffsets(r) ==
  SelectSeq([k \in 1..((2 * r + 1) * (2 * r + 1) * (2 * r + 1)) |->
               << (k - 1) \div ((2 * r + 1) * (2 * r + 1)) - r,
                  (((k - 1) \div (2 * r + 1)) % (2 * r + 1)) - r,
                  ((k - 1) % (2 * r + 1)) - r >>],
            IsNeighborOffset)

\* the neighbours pushed onto the queue for an accepted voxel
NeighborPoints(p, r) ==
  The({ [k \in 1..Len(offsets) |->
           Voxel(p.x + offsets[k][1], p.y + offsets[k][2], p.z + offsets[k][3])] :
        offsets \in { NeighborOffsets(r) } })

InsideVolume(p, dimensions) ==
  /\ p.x >= 0 /\ p.x < dimensions.width
  /\ p.y >= 0 /\ p.y < dimensions.height
  /\ p.z >= 0 /\ p.z < dimensions.depth

\* volumeData[z * width * height + y * width + x]
VoxelIntensity(volumeData, dimensions, p) ==
  volumeData[p.z * dimensions.width * dimensions.height + p.y * dimensions.width + p.x + 1]

\* the squared distance of a point from the seed point, in mm^2
SeedDistance2(p, seedPoint, spacing) ==
  (p.x - seedPoint.x) * spacing[1] * (p.x - seedPoint.x) * spacing[1]
  + (p.y - seedPoint.y) * spacing[2] * (p.y - seedPoint.y) * spacing[2]
  + (p.z - seedPoint.z) * spacing[3] * (p.z - seedPoint.z) * spacing[3]

\* points.sort by the distance from the seed point: the sort is stable, so
\* points at the same distance keep their order
SortedByDistance(points, seedPoint, spacing) ==
  The({ [k \in 1..Len(points) |->
           points[CHOOSE i \in 1..Len(points) :
                    Cardinality({ j \in 1..Len(points) :
                                    \/ keys[j] < keys[i]
                                    \/ (keys[j] = keys[i] /\ j < i) }) = k - 1]] :
        keys \in { [i \in 1..Len(points) |-> SeedDistance2(points[i], seedPoint, spacing)] } })

\* Math.ceil(a / b) for whole a >= 0 and b > 0
CeilDiv(a, b) == (a + b - 1) \div b

samplingInterval == 2

\* every n-th point of the sorted region, n = Math.ceil(samplingInterval / spacing[0])
extractVesselCenterline3D(sortedPoints, spacing) ==
  The({ [k \in 1..CeilDiv(Len(sortedPoints), n) |-> sortedPoints[(k - 1) * n + 1]] :
        n \in { CeilDiv(samplingInterval, spacing[1]) } })

\* the length of the centerline in hundredths of a millimetre
calculateVesselLength(centerlinePoints, spacing) ==
  IF Len(centerlinePoints) < 2 THEN 0
  ELSE SumTo([i \in 1..(Len(centerlinePoints) - 1) |->
                Isqrt(SeedDistance2(centerlinePoints[i + 1], centerlinePoints[i], spacing)
                      * Scale)],
             Len(centerlinePoints) - 1)

\* the vessel pushed for a region of more than minVesselLength points; the
\* sort of the centerline extraction reorders the points of the region
SegmentedVessel(index, seedPoint, points, spacing) ==
  The({ The({ [id |-> index, seedPoint |-> seedPoint, centerline |-> centerline,
               segmentedRegion |-> [points |-> sorted, seedPoint |-> seedPoint],
               length |-> calculateVesselLength(centerline, spacing),
               volume |-> Len(points) * spacing[1] * spacing[2] * spacing[3]] :
              centerline \in { extractVesselCenterline3D(sorted, spacing) } }) :
        sorted \in { SortedByDistance(points, seedPoint, spacing) } })

-----------------------------------------------------------------------------
(* Specification of the segmentation: a volume, seed points and options    *)
(* are drawn and segmentCoronaryArteries is called; the loop of the region *)
(* growing takes one point from the queue per step.                        *)

\* a volume of 3 x 2 voxels in one slice, with voxels of 1 mm
SliceDimensions == [width |-> 3, height |-> 2, depth |-> 1]

VolumeOf(data) == [data |-> data, dimensions |-> SliceDimensions, spacing |-> << 1, 1, 1 >>]

\* contrast everywhere; a vessel along the row y = 0; a vessel interrupted
\* by a calcification; no contrast
CtVolumes ==
  { VolumeOf(<< 300, 300, 300, 300, 300, 300 >>),
    VolumeOf(<< 300, 300, 300, 0, 0, 0 >>),
    VolumeOf(<< 300, 900, 300, 0, 0, 250 >>),
    VolumeOf(<< 0, 0, 0, 0, 0, 0 >>) }

\* seed points: two inside the volume and one outside
SeedVoxelChoices == { Voxel(0, 0, 0), Voxel(2, 1, 0), Voxel(3, 0, 0) }

\* the most seed points of a call
MaxSeedVoxels == 2

\* the greatest radius of the region growing
MaxRadius == 1

\* the default thresholds and vessel length, and a call that keeps regions
\* of more than 2 points
GrowOptions ==
  { [intensityThreshold |-> 200, maxIntensity |-> 800, regionGrowingRadius |-> r,
     minVesselLength |-> n] : r \in 1..MaxRadius, n \in { 10, 2 } }

IdleGrower ==
  [ phase |-> "idle", index |-> 0, queue |-> << >>, segmentedPoints |-> << >>,
    visitedVoxels |-> {}, regions |-> << >>, segmentedVessels |-> << >> ]

GrowStart ==
  /\ ctVolume \in CtVolumes
  /\ seedVoxels \in UNION { [1..n -> SeedVoxelChoices] : n \in 0..MaxSeedVoxels }
  /\ growOptions \in GrowOptions
  /\ grower = IdleGrower
  /\ segmentation = None

GrowIdle ==
  /\ ctVolume = VolumeOf(<< 0, 0, 0, 0, 0, 0 >>)
  /\ seedVoxels = << >>
  /\ growOptions = [intensityThreshold |-> 200, maxIntensity |-> 800,
                    regionGrowingRadius |-> 1, minVesselLength |-> 10]
  /\ grower = IdleGrower
  /\ segmentation = None

\* the call: an empty list of vessels and an empty set of visited voxels
SegmentCoronaryArteries ==
  /\ grower.phase = "idle"
  /\ grower' = [grower EXCEPT !.phase = "seeds"]
  /\ UNCHANGED << ctVolume, seedVoxels, growOptions, segmentation, OutsideGrow >>

\* regionGrowingSegmentation is entered for the next seed point
BeginRegion ==
  /\ grower.phase = "seeds"
  /\ grower.index < Len(seedVoxels)
  /\ grower' = [grower EXCEPT !.phase = "grow",
                              !.queue = << seedVoxels[grower.index + 1] >>,
                              !.segmentedPoints = << >>]
  /\ UNCHANGED << ctVolume, seedVoxels, growOptions, segmentation, OutsideGrow >>

\* one pass through the while loop with a set of visited voxels that is
\* never added to
GrowStepWithoutVisited ==
  /\ grower.phase = "grow"
  /\ grower.queue # << >>
  /\ \E currentPoint \in { Head(grower.queue) } :
       grower' =
         IF ~InsideVolume(currentPoint, ctVolume.dimensions) THEN [grower EXCEPT !.queue = Tail(@)]
         ELSE IF voxelKey(currentPoint) \in grower.visitedVoxels
         THEN [grower EXCEPT !.queue = Tail(@)]
         ELSE IF /\ VoxelIntensity(ctVolume.data, ctVolume.dimensions, currentPoint)
                      >= growOptions.intensityThreshold
                 /\ VoxelIntensity(ctVolume.data, ctVolume.dimensions, currentPoint)
                      <= growOptions.maxIntensity
         THEN [grower EXCEPT
                !.segmentedPoints = Append(@, currentPoint),
                !.queue = Tail(@) \o NeighborPoints(currentPoint,
                                                    growOptions.regionGrowingRadius)]
         ELSE [grower EXCEPT !.queue = Tail(@)]
  /\ UNCHANGED << ctVolume, seedVoxels, growOptions, segmentation, OutsideGrow >>

\* one pass through the while loop of regionGrowingSegmentation
GrowStep ==
  /\ grower.phase = "grow"
  /\ grower.queue # << >>
  /\ \E currentPoint \in { Head(grower.queue) } :
       grower' =
         IF ~InsideVolume(currentPoint, ctVolume.dimensions) THEN [grower EXCEPT !.queue = Tail(@)]
         ELSE IF voxelKey(currentPoint) \in grower.visitedVoxels
         THEN [grower EXCEPT !.queue = Tail(@)]
         ELSE IF /\ VoxelIntensity(ctVolume.data, ctVolume.dimensions, currentPoint)
                      >= growOptions.intensityThreshold
                 /\ VoxelIntensity(ctVolume.data, ctVolume.dimensions, currentPoint)
                      <= growOptions.maxIntensity
         THEN [grower EXCEPT
                !.visitedVoxels = @ \cup { voxelKey(currentPoint) },
                !.segmentedPoints = Append(@, currentPoint),
                !.queue = Tail(@) \o NeighborPoints(currentPoint,
                                                    growOptions.regionGrowingRadius)]
         ELSE [grower EXCEPT !.queue = Tail(@)]
  /\ UNCHANGED << ctVolume, seedVoxels, growOptions, segmentation, OutsideGrow >>

\* the queue is empty: the region is returned, and kept as a vessel when it
\* has more than minVesselLength points
EndRegion ==
  /\ grower.phase = "grow"
  /\ grower.queue = << >>
  /\ grower' = [grower EXCEPT
       !.phase = "seeds",
       !.index = @ + 1,
       !.regions = Append(@, grower.segmentedPoints),
       !.segmentedVessels =
          IF Len(grower.segmentedPoints) > growOptions.minVesselLength
          THEN Append(@, SegmentedVessel(grower.index, seedVoxels[grower.index + 1],
                                         grower.segmentedPoints, ctVolume.spacing))
          ELSE @]
  /\ UNCHANGED << ctVolume, seedVoxels, growOptions, segmentation, OutsideGrow >>

\* the return of the segmented vessels
ReturnSegmentation ==
  /\ grower.phase = "seeds"
  /\ grower.index >= Len(seedVoxels)
  /\ segmentation' = Some([vessels |-> grower.segmentedVessels,
                           totalVessels |-> Len(grower.segmentedVessels),
                           volume |-> ctVolume])
  /\ grower' = [grower EXCEPT !.phase = "returned"]
  /\ UNCHANGED << ctVolume, seedVoxels, growOptions, OutsideGrow >>

GrowNext ==
  \/ SegmentCoronaryArteries
  \/ BeginRegion
  \/ GrowStep
  \/ EndRegion
  \/ ReturnSegmentation

-----------------------------------------------------------------------------
(* Claims on the projection geometry *)

RcRr(a) == multiplyMatrices3x3(R_cranial(a[2]), R_rao(a[1]))

\* C1: every builder of the rotation uses R = R_cranial * R_raoLao: the
\* matrix of projectionAnglesToRotationMatrix and the rotation part of
\* createProjectionMatrix equal it, and the inverse used by
\* calculate3DVesselDirection is its transpose.
C1_SameComposition ==
  rotation # None =>
    /\ rotation[1].matrix = RcRr(angles)
    /\ \A i, j \in 1..3 : rotation[1].projection[i][j] = RcRr(angles)[i][j]
    /\ rotation[1].inverse = transposeMatrix3x3(RcRr(angles))

\* C2: for raoLao in (-90, 90) and cranialCaudal in (-45, 45) the viewing
\* direction converts back to the same angle pair within 0.5 degrees.
C2_RoundTrip ==
  (backAngles # None /\ Abs(angles[1]) < 90 /\ Abs(angles[2]) < 45) =>
    /\ Abs(backAngles[1].raoLao - 10 * angles[1]) <= 5
    /\ Abs(backAngles[1].cranialCaudal - 10 * angles[2]) <= 5

\* R transposed times R is the identity, within the rounding of the entries
Orthonormal(R) ==
  \A i, j \in 1..3 :
    Abs(multiplyMatrices3x3(transposeMatrix3x3(R), R)[i][j] - (IF i = j THEN Scale ELSE 0))
      <= UnitTolerance

\* the rotation part of a 3x4 projection matrix
RotationPart(P) == [i \in 1..3 |-> << P[i][1], P[i][2], P[i][3] >>]

\* C17: for every angle pair the rotation matrix returned by
\* projectionAnglesToRotationMatrix, and the one createProjectionMatrix
\* builds, is orthonormal: R transposed times R is the identity.
C17_Orthonormal ==
  rotation # None =>
    /\ Orthonormal(rotation[1].matrix)
    /\ Orthonormal(RotationPart(rotation[1].projection))

\* the matrices of an angle pair with both angles away from 0 and the limits
C17_Witness ==
  /\ rotation # None
  /\ angles[1] \notin {-90, 0, 90} /\ angles[2] \notin {-45, 0, 45}
  /\ rotation[1].matrix[1][3] # 0

-----------------------------------------------------------------------------
(* Claims on the reconstruction *)

IsUnit(v) == Abs(VecLength(v) - Scale) <= UnitTolerance

\* C5: reconstruct3DVesselDirections never returns a zero vector: each
\* returned direction has unit length (a cancelled average is an error).
C5_UnitDirections ==
  (vesselDirections # None /\ IsOk(vesselDirections[1])) =>
    /\ IsUnit(vesselDirections[1][2].vessel1)
    /\ IsUnit(vesselDirections[1][2].vessel2)

\* C6: whenever the cross product that gives the bifurcation-plane normal
\* is zero, the computation fails and produces no angles, in
\* calculatePlaneNormal and in the simulator alike.
C6_ParallelFails ==
  /\ (planeAngles # None
        /\ crossProduct(vesselDirections[1][2].vessel1,
                        vesselDirections[1][2].vessel2) = << 0, 0, 0 >>)
       => IsErr(planeAngles[1])
  /\ (simOptimal # None
        /\ crossProduct(subtractVectors(vessels.branch1, vessels.main),
                        subtractVectors(vessels.branch2, vessels.main)) = << 0, 0, 0 >>)
       => IsErr(simOptimal[1])

-----------------------------------------------------------------------------
(* Claims on the linear solver *)

\* the pivots of the system that was eliminated
SolvedPivots ==
  IF solution[1].via = "direct"
  THEN Pivots(NumMatrix(system.A), NumVector(system.b))
  ELSE LET m == Len(system.A)
           AtA == [i \in 1..Unknowns |-> [j \in 1..Unknowns |->
                    Num(SumTo([k \in 1..m |-> system.A[k][i] * system.A[k][j]], m))]]
           Atb == [i \in 1..Unknowns |->
                    Num(SumTo([k \in 1..m |-> system.A[k][i] * system.b[k]], m))]
       IN Pivots(AtA, Atb)

\* C4: whenever the pivot selected for a column after the row-swap search
\* is zero, the solver fails with an error and returns no solution vector.
C4_ZeroPivotFails ==
  (solution # None /\ \E i \in 1..Unknowns : IsZero(SolvedPivots[i]))
    => IsErr(solution[1].result)

-----------------------------------------------------------------------------
(* Claims on the wizard *)

\* C7: once the steps have been completed in order and the Results step
\* has finished calculating, it shows optimal angles computed from the
\* project data and is not in the calculation-error state.
C7_ResultsShown ==
  (currentStep = StepCount - 1 /\ resultsView # None /\ ~resultsView[1].isCalculating)
    => /\ resultsView[1].error = Null
       /\ resultsView[1].results # Null

-----------------------------------------------------------------------------
(* Claims on the image processor *)

\* the homography of the current run has |det| < 1e-10
SingularRun ==
  run.homography # None /\ Abs(Determinant(run.homography[1])) < DetThreshold

\* C8: when the homography handed to the perspective correction has
\* |det| < 1e-10, no corrected image is produced and the run ends in status
\* 'error', never 'completed'; and every Use Original Image hands the
\* unmodified input image to onProcessingComplete.
C8_SingularHomography ==
  /\ SingularRun =>
       /\ status # "completed"
       /\ correctedImage = Null
       /\ run.at \in {"apply", "none"}
       /\ run.at = "none" => status = "error"
       /\ run.canvas = Some(image)
  /\ \A k \in 1..Len(calls) :
       calls[k].from = "Use Original Image" =>
         calls[k].to = "onProcessingComplete" /\ calls[k].with = image

\* a run with a singular homography has failed and the original image was used
C8_Witness ==
  /\ SingularRun
  /\ status = "error"
  /\ \E k \in 1..Len(calls) : calls[k].from = "Use Original Image"

\* the exact product of two matrices of integers
ExactProduct(A, B) ==
  [r \in 1..3 |-> [c \in 1..3 |-> A[r][1] * B[1][c] + A[r][2] * B[2][c] + A[r][3] * B[3][c]]]

\* s times the identity matrix
ScaledIdentity(s) == [r \in 1..3 |-> [c \in 1..3 |-> IF r = c THEN s ELSE 0]]

TwoIdenticalRows(matrix) ==
  \E r, s \in 1..3 : r # s /\ matrix[r] = matrix[s]

\* C15: for a matrix M with |det(M)| >= 1e-10 the inverse invertMatrix3x3
\* returns, the cofactors over det, multiplied by M is the identity; for M
\* with |det(M)| < 1e-10, in particular with two identical rows, it throws.
C15_InverseOrThrow ==
  run.homography # None =>
    \A inverse \in { invertMatrix3x3(run.homography[1]) } :
      /\ Abs(Determinant(run.homography[1])) >= DetThreshold
           => /\ IsOk(inverse)
              /\ ExactProduct(inverse[2].cofactors, run.homography[1])
                   = ScaledIdentity(inverse[2].det)
      /\ Abs(Determinant(run.homography[1])) < DetThreshold => IsErr(inverse)
      /\ TwoIdenticalRows(run.homography[1]) => IsErr(inverse)
      /\ run.at = "finalize" => run.canvas[1].mapping = inverse[2]

\* the perspective correction has inverted a homography with a perspective
\* row and mapped the image through the inverse
C15_Witness ==
  /\ run.at = "finalize"
  /\ run.homography[1] \in PerspectiveSet
  /\ run.canvas[1].mapping.det = Determinant(run.homography[1])

-----------------------------------------------------------------------------
(* Claims on the bifurcation detection *)

\* C10: detectBifurcationPoint returns the candidate with the highest score
\* among those of the closest-approach, intersection and centroid
\* estimators, its confidence is that score, and of candidates with equal
\* scores the one of the earlier estimator is returned.
C10_BestCandidate ==
  (detection # None /\ IsOk(detection[1])) =>
    \E k \in 1..Len(Candidates(centerlines)) :
      /\ Candidates(centerlines)[k].point = detection[1][2].bifurcationPoint
      /\ Candidates(centerlines)[k].method = detection[1][2].method
      /\ Candidates(centerlines)[k].score = detection[1][2].confidence
      /\ \A j \in 1..Len(Candidates(centerlines)) :
           /\ ~ScoreGreater(Candidates(centerlines)[j].score, detection[1][2].confidence)
           /\ j < k => ScoreGreater(detection[1][2].confidence,
                                     Candidates(centerlines)[j].score)

\* a detection in which all three estimators produced the same score
C10_Witness ==
  /\ detection # None
  /\ IsOk(detection[1])
  /\ Len(Candidates(centerlines)) = 3
  /\ ScoreEqual(Candidates(centerlines)[1].score, Candidates(centerlines)[2].score)
  /\ ScoreEqual(Candidates(centerlines)[2].score, Candidates(centerlines)[3].score)
  /\ detection[1][2].method = "closest_approach"

\* the three adjusted segments of a successful detection
AdjustedSegments ==
  << detection[1][2].adjustedSegments.main,
     detection[1][2].adjustedSegments.branch1,
     detection[1][2].adjustedSegments.branch2 >>

\* C11: in every successful result of detectBifurcationPoint each of the
\* three adjusted segments is non-empty and its first point is the returned
\* bifurcation point.
C11_SegmentsAnchored ==
  (detection # None /\ IsOk(detection[1])) =>
    \A k \in 1..3 :
      /\ Len(AdjustedSegments[k]) >= 1
      /\ AdjustedSegments[k][1] = detection[1][2].bifurcationPoint

\* a successful detection with a stepped segment and a single-point segment
C11_Witness ==
  /\ detection # None
  /\ IsOk(detection[1])
  /\ \E k \in 1..3 : Len(AdjustedSegments[k]) = 1 + segmentLength \div stepSize
  /\ \E k \in 1..3 : Len(AdjustedSegments[k]) = 1

\* C28: for any three non-empty centerlines the endpoint-centroid estimator
\* produces a candidate, so detectBifurcationPoint never fails with "Could
\* not detect bifurcation point"; its only failure is the error of an empty
\* centerline.
C28_CentroidAlwaysFound ==
  /\ detection # Some(Err("Could not detect bifurcation point"))
  /\ (/\ detection # None
      /\ \A k \in 1..3 : Len(centerlines[k]) > 0)
       => /\ findEndpointCentroid(centerlines) # Null
          /\ IsOk(detection[1])
  /\ (detection # None /\ IsErr(detection[1]))
       => /\ detection[1] = Err("All vessel centerlines must have points")
          /\ \E k \in 1..3 : Len(centerlines[k]) = 0

\* a successful detection whose only candidate is the one of the centroid
C28_Witness ==
  /\ detection # None
  /\ IsOk(detection[1])
  /\ Len(Candidates(centerlines)) = 1
  /\ detection[1][2].method = "centroid"

\* the point at the given number of pixels from the bifurcation point along
\* a unit direction
PointAlong(bifurcationPoint, direction, pixels) ==
  Point(bifurcationPoint.x + RoundDiv(direction.x * pixels * Px, Scale),
        bifurcationPoint.y + RoundDiv(direction.y * pixels * Px, Scale))

\* C27: each adjusted segment for which a direction exists extends the
\* default 25 pixels from the bifurcation point: its last point is
\* bifurcationPoint + 25 * u, u the unit vector from the bifurcation point
\* toward the farthest point of the original centerline (to a tenth of a
\* pixel in each coordinate).
C27_FullSegmentLength ==
  (detection # None /\ IsOk(detection[1])) =>
    \A k \in 1..3 :
      \A direction \in { findDirectionFromBifurcation(detection[1][2].bifurcationPoint,
                                                      centerlines[k]) } :
        direction # Null
          => \A full \in { PointAlong(detection[1][2].bifurcationPoint, direction[1],
                                      segmentLength) } :
               /\ Abs(AdjustedSegments[k][Len(AdjustedSegments[k])].x - full.x) <= 1
               /\ Abs(AdjustedSegments[k][Len(AdjustedSegments[k])].y - full.y) <= 1

-----------------------------------------------------------------------------
(* Claims on the bifurcation detection: a common point *)

\* the point the drawn centerlines are laid around
CommonPoint == Point(Reach * Px, Reach * Px)

\* the centerline has a segment that contains the point
PassesThrough(point, centerline) == getMinDistanceToLine(point, centerline) = 0

AllPassThroughCommonPoint ==
  \A k \in 1..3 : PassesThrough(CommonPoint, centerlines[k])

\* C12: for three centerlines that all pass through a common point P,
\* detectBifurcationPoint returns a bifurcationPoint within 3 pixels of P and
\* a confidence greater than 0.
C12_NearCommonPoint ==
  (detection # None /\ AllPassThroughCommonPoint)
    => /\ IsOk(detection[1])
       /\ distance(detection[1][2].bifurcationPoint, CommonPoint) <= 3 * Px
       /\ detection[1][2].confidence[1] > 0

-----------------------------------------------------------------------------
(* Claims on the bifurcation detection: the closest approach *)

\* the sample points of the three centerlines
AllPoints == centerlines[1] \o centerlines[2] \o centerlines[3]

\* the score 1 / (1 + max_dist) * 1 / (1 + total_dist) of a sample point
SampleScore(point) == ClosestScore(ThreeDistances(point, centerlines))

\* C22: the closest-approach estimator returns, among all sample points of
\* the three centerlines, a point whose score is the maximum over those
\* points, and reports that maximum as its score.
C22_MaximumScore ==
  (detection # None /\ IsOk(detection[1]))
    => \A found \in { findClosestApproachPoint(centerlines) } :
         found # Null
           => /\ \E k \in 1..Len(AllPoints) : AllPoints[k] = found[1].point
              /\ ScoreEqual(found[1].score, SampleScore(found[1].point))
              /\ \A k \in 1..Len(AllPoints) :
                   ~ScoreGreater(SampleScore(AllPoints[k]), found[1].score)

-----------------------------------------------------------------------------
(* Claims on the angle optimizers *)

\* an optimizer has returned its result
Returned == optimum # None /\ IsOk(optimum[1])

\* C3: for the three vessels of the plane z = 0, [0,1,0], [0.707,0.707,0]
\* and [-0.707,0.707,0], the angles an optimizer returns are within 2
\* degrees of raoLao = 0 and cranialCaudal = 0.
C3_NearFrontal ==
  (Returned /\ vessel3DDirections = PlaneVessels)
    => /\ Abs(optimum[1][2].raoLao) <= 20
       /\ Abs(optimum[1][2].cranialCaudal) <= 20

\* C9: the score returned by a refining optimizer is the objective at the
\* angle pair its refinement ended on.
C9_AchievedScore ==
  (Returned /\ optimizer # "findOptimalAngles")
    => optimum[1][2].score = Objective(optimizer, vessel3DDirections, search.currentAngles)

\* the pair lies in the range of the C-arm, in thousandths of a degree
InRange(pair) ==
  /\ - 90 * Milli <= pair[1] /\ pair[1] <= 90 * Milli
  /\ - 45 * Milli <= pair[2] /\ pair[2] <= 45 * Milli

\* C13: the angles an optimizer returns satisfy -90 <= raoLao <= 90 and
\* -45 <= cranialCaudal <= 45, and every pair the refinement accepts lies in
\* that range.
C13_AnglesInRange ==
  /\ Returned => /\ - 900 <= optimum[1][2].raoLao /\ optimum[1][2].raoLao <= 900
                 /\ - 450 <= optimum[1][2].cranialCaudal /\ optimum[1][2].cranialCaudal <= 450
  /\ search.phase \in {"refine", "refined", "returned"} => InRange(search.currentAngles)

\* the refinement accepted a pair that the limit of cranialCaudal cut off,
\* and the optimizer returned it
C13_Witness ==
  /\ Returned /\ optimizer = "correctedMath"
  /\ search.currentAngles[2] = 45 * Milli
  /\ search.currentAngles[1] # search.bestAngles[1] * Milli

\* C14: the grid search keeps the first grid point in iteration order that
\* attains the maximum score: the best point is replaced only together with
\* a higher best score, never by a later point of equal score; and a second
\* call with the same inputs returns the same angles and score as the first.
C14_FirstSeenWins ==
  /\ [][(search.phase = "grid" /\ search'.phase = "grid"
         /\ search'.bestAngles # search.bestAngles)
        => /\ IsFinite(search'.bestScore)
           /\ IsFinite(search.bestScore) => search'.bestScore[2] > search.bestScore[2]]_vars
  /\ []((earlier # None /\ optimum # None) => optimum = earlier)

\* the second call has returned, and the last grid point, (90, 45), has the
\* returned score without being the returned point
C14_Witness ==
  /\ earlier # None /\ Returned
  /\ optimizer = "findOptimalAngles"
  /\ search.bestAngles # << 90, 45 >>
  /\ Objective(optimizer, vessel3DDirections, << 90 * Milli, 45 * Milli >>)
       = optimum[1][2].score

\* the tolerance of the refinement of an optimizer
RefinementTolerance == IF optimizer = "vesselTracking" THEN HillTolerance ELSE GradTolerance

\* no candidate of the iteration at hand improves the current score by more
\* than the tolerance
NothingImproves ==
  RefineIteration(optimizer, vessel3DDirections, search.currentAngles,
                  search.currentScore) = None

\* C29: angle refinement terminates within its iteration cap (20 iterations
\* of refineOptimalAngles, 50 of refineAngles): the iteration counter never
\* passes the cap and every step of the loop either accepts a pair that
\* improves the score by more than the tolerance (0.01 and 0.001) and counts
\* one iteration, or leaves the loop; and it stops at the first iteration in
\* which no candidate pair improves the score by more than the tolerance.
C29_RefinementStops ==
  /\ [](search.phase = "refine"
          => search.iter <= (IF optimizer = "vesselTracking" THEN 20 ELSE 50))
  /\ [][search.phase = "refine"
          => \/ /\ search'.phase = "refine"
                /\ ~NothingImproves
                /\ search'.iter = search.iter + 1
                /\ Exceeds(search'.currentScore, search.currentScore, RefinementTolerance)
             \/ /\ search'.phase = "refined"
                /\ NothingImproves
                /\ search'.currentAngles = search.currentAngles
             \/ /\ search'.phase = "returned"
                /\ search.iter >= (IF optimizer = "vesselTracking" THEN 20 ELSE 50)]_vars

\* a refinement that accepted pairs in several iterations and stopped in the
\* first one without an improvement
C29_Witness ==
  /\ search.phase = "refined"
  /\ search.iter >= 2
  /\ NothingImproves

-----------------------------------------------------------------------------
(* Claims on the single-vessel score *)

\* the viewing direction in whole components
WholeView == << scoredView[1] \div Fine, scoredView[2] \div Fine, scoredView[3] \div Fine >>

\* dot product and squared length of vectors of integers
WholeDot(a, b) == a[1] * b[1] + a[2] * b[2] + a[3] * b[3]

NonZero(a) == WholeDot(a, a) # 0

\* the angle between the vessel and the viewing direction is 0 or 180 degrees
ScoredParallel ==
  /\ NonZero(scoredVessel) /\ NonZero(WholeView)
  /\ WholeDot(scoredVessel, WholeView) * WholeDot(scoredVessel, WholeView)
       = WholeDot(scoredVessel, scoredVessel) * WholeDot(WholeView, WholeView)

\* the angle is 90 degrees
ScoredPerpendicular ==
  /\ NonZero(scoredVessel) /\ NonZero(WholeView)
  /\ WholeDot(scoredVessel, WholeView) = 0

\* the angle is 45 or 135 degrees: the squared cosine is 1/2
ScoredDiagonal ==
  /\ NonZero(scoredVessel) /\ NonZero(WholeView)
  /\ 2 * WholeDot(scoredVessel, WholeView) * WholeDot(scoredVessel, WholeView)
       = WholeDot(scoredVessel, scoredVessel) * WholeDot(WholeView, WholeView)

\* how far a score may lie from the value it is said to be about, in millionths
ScoreTolerance == 2000

\* the score is a number within the tolerance of the target
About(score, target) ==
  IsFinite(score) /\ Abs(score[2] - target) <= ScoreTolerance

\* C16: the single-vessel score is about 0 when the vessel is parallel to
\* the viewing direction, about 1 when it is perpendicular, and about 0.707
\* when the two are 45 degrees apart.
C16_ForeshorteningScore ==
  singleScore # None =>
    /\ ScoredParallel => About(singleScore[1], 0)
    /\ ScoredPerpendicular => About(singleScore[1], Fine)
    /\ ScoredDiagonal => About(singleScore[1], 707107)

\* the optimizer of vesselTracking or of correctedMath was called
RefiningCall == optimizer \in { "vesselTracking", "correctedMath" }

\* C19: the optimizer accepts exactly three vessel directions: for an input
\* whose length is not 3 it fails with an error before evaluating any grid
\* point (its loop variables and best score are untouched), and for an
\* input of length 3 it does not raise that error.
C19_ExactlyThree ==
  RefiningCall =>
    /\ Len(vessel3DDirections) # 3
         => /\ optimum = Some(Err(RequiredMessage(optimizer)))
            /\ search = [IdleSearch EXCEPT !.phase = "thrown"]
    /\ Len(vessel3DDirections) = 3
         => /\ optimum # Some(Err(RequiredMessage(optimizer)))
            /\ search.phase # "thrown"

\* a call with four vessel directions has thrown
C19_Witness ==
  /\ RefiningCall
  /\ Len(vessel3DDirections) = 4
  /\ optimum = Some(Err(RequiredMessage(optimizer)))

-----------------------------------------------------------------------------
(* Claims on the vessel tracking *)

SeedError == Err("At least 2 seed points required")

\* C18: extractVesselCenterline called with fewer than 2 seed points fails
\* with an error before reading the image and returns no centerline; with 2
\* or more seed points it does not raise this error.
C18_SeedPointsRequired ==
  /\ (Len(seedPoints) < 2 /\ tracker.phase # "idle")
       => /\ tracedCenterline = Some(SeedError)
          /\ tracker.phase = "thrown"
          /\ tracker.intensityMap = None
  /\ Len(seedPoints) >= 2 => tracedCenterline # Some(SeedError)

\* a call with one seed point has thrown
C18_Witness ==
  /\ Len(seedPoints) = 1
  /\ tracker.phase = "thrown"
  /\ tracedCenterline = Some(SeedError)

\* the interpolation target of a step between the seed points of the
\* segment that is traced
TargetOfStep(step) ==
  Point(TargetAt(seedPoints[tracker.i + 1].x,
                 seedPoints[tracker.i + 2].x - seedPoints[tracker.i + 1].x,
                 step, tracker.steps),
        TargetAt(seedPoints[tracker.i + 1].y,
                 seedPoints[tracker.i + 2].y - seedPoints[tracker.i + 1].y,
                 step, tracker.steps))

\* C25: when the distance between two consecutive seed points exceeds
\* segmentLength, every interpolation target used while tracing that pair,
\* that is every target the cursor of a later sample is taken from, lies
\* within segmentLength pixels of the first seed point of the pair.
C25_TargetsWithinSegment ==
  (/\ tracker.phase = "trace"
   /\ tracker.steps > 0
   /\ distance(seedPoints[tracker.i + 1], seedPoints[tracker.i + 2]) > maxLength * Sub)
    => \A step \in 0..(tracker.step - 1) :
         step < tracker.steps
           => distance(TargetOfStep(step), seedPoints[tracker.i + 1]) <= maxLength * Sub

\* C26: during centerline tracing every cursor position at which the local
\* vessel centre is sampled, the first one at the seed point included, is at
\* least 2 pixels from every image edge: between 2 and width - 3 in x and
\* between 2 and height - 3 in y.
C26_CursorInsideMargin ==
  (tracker.phase = "trace" /\ tracker.step <= tracker.steps)
    => /\ tracker.current # Null
       /\ tracker.current[1].x >= 2 * Sub
       /\ tracker.current[1].x <= (imageData.width - 3) * Sub
       /\ tracker.current[1].y >= 2 * Sub
       /\ tracker.current[1].y <= (imageData.height - 3) * Sub

-----------------------------------------------------------------------------
(* Claims on the conversion of an image segment *)

\* C20: converting a 2D image segment to a 3D direction fails with an error
\* whenever the two image points coincide, and for two distinct points it
\* returns a direction of unit length.
C20_UnitOrError ==
  converted # None =>
    /\ markedSegment.start = markedSegment.end
         => /\ converted[1].fromCoordinates = Err("Points are identical")
            /\ converted[1].fromCenterline = Err("Vessel direction is zero length")
    /\ markedSegment.start # markedSegment.end
         => /\ IsOk(converted[1].fromCoordinates)
            /\ IsUnit(converted[1].fromCoordinates[2])
            /\ IsOk(converted[1].fromCenterline)
            /\ IsUnit(converted[1].fromCenterline[2])

\* a segment of one pixel was converted in an image taken at an angle
C20_Witness ==
  /\ converted # None
  /\ markedSegment.start # markedSegment.end
  /\ Abs(markedSegment.end[1] - markedSegment.start[1])
       + Abs(markedSegment.end[2] - markedSegment.start[2]) = 1
  /\ viewAngles[1] # 0 /\ viewAngles[2] # 0
  /\ IsOk(converted[1].fromCoordinates)
  /\ converted[1].fromCoordinates[2][3] # 0

\* the viewing direction the scoring uses for the angles of the image
ScoringDirection == calculateViewingDirection(viewAngles[1], viewAngles[2])

\* the dot product of two vectors of unit length is 0 within the tolerance
Perpendicular(u, v) ==
  Abs(Mul(u[1], v[1]) + Mul(u[2], v[2]) + Mul(u[3], v[3])) <= UnitTolerance

\* C21: for every angle pair and every segment of two distinct points, the
\* 3D direction reconstructed from an image taken at that angle pair is
\* perpendicular to the viewing direction [-sin(a)cos(b), cos(a)cos(b),
\* sin(b)] the scoring uses for the same pair, so that a vessel lying in the
\* image plane of a view has foreshortening factor 1 in that view.
C21_InImagePlane ==
  (converted # None /\ markedSegment.start # markedSegment.end)
    => /\ IsOk(converted[1].fromCoordinates)
            => Perpendicular(converted[1].fromCoordinates[2], ScoringDirection)
       /\ IsOk(converted[1].fromCenterline)
            => Perpendicular(converted[1].fromCenterline[2], ScoringDirection)

-----------------------------------------------------------------------------
(* Claims on the optimizers: the values returned                           *)

\* C24: for any three vessel directions with finite entries, of unit length
\* or not, calculateOptimalViewingAngles returns a finite raoLao, a finite
\* cranialCaudal and a finite score: no NaN and no infinite value is returned.
\* The angles of the model are numbers; the score can be NaN or -Infinity.
C24_FiniteOutput ==
  (/\ optimizer \in { "vesselTracking", "correctedMath" }
   /\ Len(vessel3DDirections) = 3
   /\ optimum # None
   /\ IsOk(optimum[1]))
    => /\ optimum[1][2].raoLao \in Int
       /\ optimum[1][2].cranialCaudal \in Int
       /\ IsFinite(optimum[1][2].score)

-----------------------------------------------------------------------------
(* Claims on the 3D view *)

\* the data of an image as the vessel tracker hands it over
TrackerProduced(imageVesselData) ==
  /\ imageVesselData # Null
  /\ "vesselDirections" \in DOMAIN imageVesselData[1]

\* C23: whenever both images' vessel data produced by the vessel tracker
\* are present, the optimal angles the 3D view reports are the result of
\* its search over the reconstructed vessels, never the hard-coded default
\* {raoLao: 30, cranialCaudal: 20, score: 0}.
C23_NoDefaultSubstituted ==
  (/\ optimalAngles # None
   /\ TrackerProduced(vesselData.image1VesselData)
   /\ TrackerProduced(vesselData.image2VesselData))
    => /\ optimalAngles[1] # DefaultAngles
       /\ vessels3D # None
       /\ vessels3D[1] # Null

-----------------------------------------------------------------------------
(* Claims on the region growing *)

\* every point accepted into a region during the call so far, in order:
\* the regions returned and the points of the region that is growing
AcceptedPoints ==
  The({ returned \o (IF grower.phase = "grow" THEN grower.segmentedPoints ELSE << >>) :
        returned \in { IF Len(grower.regions) = 0 THEN << >>
                         ELSE IF Len(grower.regions) = 1 THEN grower.regions[1]
                         ELSE grower.regions[1] \o grower.regions[2]
                              \o (IF Len(grower.regions) > 2 THEN grower.regions[3]
                                  ELSE << >>) } })

\* C30: region growing terminates for every volume, seed point and pair of
\* thresholds: each voxel is accepted into a region at most once, also across
\* the seed points of one call, which share the set of visited voxels, so the
\* queue of each region growing empties and the call returns.
C30_RegionGrowingTerminates ==
  /\ [](\A i, j \in 1..Len(AcceptedPoints) :
          AcceptedPoints[i] = AcceptedPoints[j] => i = j)
  /\ [](\A i \in 1..Len(AcceptedPoints) :
          /\ voxelKey(AcceptedPoints[i]) \in grower.visitedVoxels
          /\ InsideVolume(AcceptedPoints[i], ctVolume.dimensions))
  /\ (grower.phase = "grow") ~> (grower.phase = "seeds" /\ grower.queue = << >>)
  /\ <>(grower.phase = "returned" /\ segmentation # None)

\* a call with two seed points has returned: the first region has several
\* voxels, among them the second seed point, whose region is empty
C30_Witness ==
  /\ grower.phase = "returned"
  /\ Len(grower.regions) = 2
  /\ Len(grower.regions[1]) > 2
  /\ \E k \in 1..Len(grower.regions[1]) : grower.regions[1][k] = seedVoxels[2]
  /\ grower.regions[2] = << >>

-----------------------------------------------------------------------------
(* Specifications *)

GeomInit == GeomStart /\ ReconIdle /\ SolveIdle /\ AppIdle /\ ProcIdle /\ BifIdle /\ OptIdle /\ ScoreIdle /\ TrackIdle /\ DirIdle /\ ViewIdle /\ GrowIdle

SpecGeom == GeomInit /\ [][GeomNext]_vars

ReconInit == ReconStart /\ GeomIdle /\ SolveIdle /\ AppIdle /\ ProcIdle /\ BifIdle /\ OptIdle /\ ScoreIdle /\ TrackIdle /\ DirIdle /\ ViewIdle /\ GrowIdle

SpecRecon == ReconInit /\ [][ReconNext]_vars

SolveInit == SolveStart /\ GeomIdle /\ ReconIdle /\ AppIdle /\ ProcIdle /\ BifIdle /\ OptIdle /\ ScoreIdle /\ TrackIdle /\ DirIdle /\ ViewIdle /\ GrowIdle

SpecSolve == SolveInit /\ [][SolveNext]_vars

AppInit == AppStart /\ GeomIdle /\ ReconIdle /\ SolveIdle /\ ProcIdle /\ BifIdle /\ OptIdle /\ ScoreIdle /\ TrackIdle /\ DirIdle /\ ViewIdle /\ GrowIdle

SpecApp == AppInit /\ [][AppNext]_vars

ProcInit == ProcStart /\ GeomIdle /\ ReconIdle /\ SolveIdle /\ AppIdle /\ BifIdle /\ OptIdle /\ ScoreIdle /\ TrackIdle /\ DirIdle /\ ViewIdle /\ GrowIdle

SpecProc == ProcInit /\ [][ProcNext]_vars

BifInit == BifStart /\ GeomIdle /\ ReconIdle /\ SolveIdle /\ AppIdle /\ ProcIdle /\ OptIdle /\ ScoreIdle /\ TrackIdle /\ DirIdle /\ ViewIdle /\ GrowIdle

SpecBif == BifInit /\ [][BifNext]_vars

OptInit == OptIdle /\ GeomIdle /\ ReconIdle /\ SolveIdle /\ AppIdle /\ ProcIdle /\ BifIdle /\ ScoreIdle /\ TrackIdle /\ DirIdle /\ ViewIdle /\ GrowIdle

SpecOpt == OptInit /\ [][OptNext]_vars

ScoreInit == ScoreStart /\ GeomIdle /\ ReconIdle /\ SolveIdle /\ AppIdle /\ ProcIdle /\ BifIdle /\ OptIdle /\ TrackIdle /\ DirIdle /\ ViewIdle /\ GrowIdle

SpecScore == ScoreInit /\ [][ScoreNext]_vars

TrackInit == TrackStart /\ GeomIdle /\ ReconIdle /\ SolveIdle /\ AppIdle /\ ProcIdle /\ BifIdle /\ OptIdle /\ ScoreIdle /\ DirIdle /\ ViewIdle /\ GrowIdle

SpecTrack == TrackInit /\ [][TrackNext]_vars

DirInit == DirStart /\ GeomIdle /\ ReconIdle /\ SolveIdle /\ AppIdle /\ ProcIdle /\ BifIdle /\ OptIdle /\ ScoreIdle /\ TrackIdle /\ ViewIdle /\ GrowIdle

SpecDir == DirInit /\ [][DirNext]_vars

ViewInit == ViewStart /\ GeomIdle /\ ReconIdle /\ SolveIdle /\ AppIdle /\ ProcIdle /\ BifIdle /\ OptIdle /\ ScoreIdle /\ TrackIdle /\ DirIdle /\ GrowIdle

SpecView == ViewInit /\ [][ViewNext]_vars

GrowInit == GrowStart /\ GeomIdle /\ ReconIdle /\ SolveIdle /\ AppIdle /\ ProcIdle /\ BifIdle /\ OptIdle /\ ScoreIdle /\ TrackIdle /\ DirIdle /\ ViewIdle

SpecGrow == GrowInit /\ [][GrowNext]_vars

\* the loops of the call run on: a step that can be taken is taken
SpecGrowFair == SpecGrow /\ WF_vars(GrowNext)

====
